---- MODULE Spec2Model ----
(***************************************************************************)
(* A model of PRAW's lazy entities (Comment, Redditor), of the permalink   *)
(* parser Comment.id_from_url, of the Listing pages with the generator     *)
(* that walks them, and of the objector.                                   *)
(*                                                                         *)
(* Nine specifications share the module:                                   *)
(*   Spec         entities: construction, attribute reads, fetch, refresh, *)
(*                parent and is_root                                       *)
(*   SpecEq       equality and hash of two constructed Comments            *)
(*   SpecUrl      Comment.id_from_url applied to bounded URLs              *)
(*   SpecListing  the page-walking generator over bounded page sequences   *)
(*   SpecObj      parse_error, check_error and objectify on raw values,    *)
(*                equality of RedditErrorItems                             *)
(*   SpecAuthor   assignments to the author of a constructed Comment       *)
(*   SpecReplies  reads of replies between reads, refreshes and parent()   *)
(*   SpecAssign   assignments to the submission of a Comment               *)
(*   SpecAfter    the after property read on one listing object            *)
(* Each specification keeps the variables of the others at rest.           *)
(***************************************************************************)
EXTENDS Integers, Sequences, FiniteSets, TLC

VARIABLES
    url,        \* SpecUrl: the URL handed to id_from_url
    urlOut,     \* SpecUrl: the outcome of id_from_url, or Pending
    kind,       \* SpecListing: the listing subtype the call site asks for
    pages,      \* SpecListing: the pages the server will return, in order
    gListing,   \* SpecListing: the generator's current page (<<>> when none)
    gIndex,     \* SpecListing: children of the current page already yielded
    gParam,     \* SpecListing: the cursor parameter of the next request
    gExhausted, \* SpecListing: the current page carried the done sentinel
    gDone,      \* SpecListing: the generator has terminated
    requests,   \* SpecListing: requests issued so far
    yielded,    \* SpecListing: children yielded so far, in order
    comments,   \* Spec: the Comment objects, in order of creation
    redditors,  \* Spec: the Redditor objects, in order of creation
    subs,       \* Spec: the Submission objects, in order of creation
    last,       \* Spec: the last operation and how it ended
    raw,        \* SpecObj: the raw JSON value handed to the objector
    objLast     \* SpecObj: the last objector call and how it ended

urlVars == <<url, urlOut>>
genVars == <<kind, pages, gListing, gIndex, gParam, gExhausted, gDone, requests, yielded>>
entVars == <<comments, redditors, subs, last>>
objVars == <<raw, objLast>>
vars == <<urlVars, genVars, entVars, objVars>>

(***************************************************************************)
(* Python values shared by the parts.                                      *)
(***************************************************************************)
None == "None"          \* Python's None
Absent == "Absent"      \* a key that is not in a mapping / __dict__
NoExc == "ok"           \* the call returned

Last(s) == s[Len(s)]

(***************************************************************************)
(* URLs.  A URL is what urlparse makes of it: whether it has a host        *)
(* (netloc) and its path.  The path is kept as the list of its "/"         *)
(* separated segments BEFORE any stripping, so "/a/b/" is <<"","a","b","">>*)
(* and the empty path is <<"">>.                                           *)
(***************************************************************************)
MaxSegs == 8
Segs == {"", "comments", "a", "b"}
SegSeqs == UNION {[1..n -> Segs] : n \in 1..MaxSegs}
\* With a host, urlparse yields a path that is empty or starts with "/".
Urls == {u \in [netloc : BOOLEAN, segs : SegSeqs] : u.netloc => u.segs[1] = ""}

\* str.rstrip("/") on the path, seen on the segment list: trailing empty
\* segments go, the first segment stays.
RECURSIVE RStripSlash(_)
RStripSlash(s) ==
    IF Len(s) > 1 /\ Last(s) = "" THEN RStripSlash(SubSeq(s, 1, Len(s) - 1)) ELSE s

InvalidURL == [exc |-> "InvalidURL", val |-> None]
Returned(v) == [exc |-> NoExc, val |-> v]

\* RedditBase._url_parts: the list of path parts, or InvalidURL without a host.
UrlParts(u) ==
    IF ~u.netloc THEN [exc |-> "InvalidURL", parts |-> <<>>]
    ELSE [exc |-> NoExc, parts |-> RStripSlash(u.segs)]

\* list.index(x): the 0-based index of the first x, or -1 for ValueError.
ListIndex(s, x) ==
    IF \E i \in 1..Len(s) : s[i] = x
    THEN (CHOOSE i \in 1..Len(s) : s[i] = x /\ \A j \in 1..(i - 1) : s[j] # x) - 1
    ELSE -1

\* Comment.id_from_url
IdFromUrl(u) ==
    LET p == UrlParts(u) IN
    IF p.exc # NoExc THEN InvalidURL
    ELSE LET comment_index == ListIndex(p.parts, "comments") IN
         IF comment_index = -1 THEN InvalidURL
         ELSE IF Len(p.parts) - 4 # comment_index THEN InvalidURL
         ELSE Returned(Last(p.parts))

Pending == [exc |-> "pending", val |-> None]

\* The variables at rest in the specifications that do not use them.
UrlIdle == url = [netloc |-> FALSE, segs |-> <<"">>] /\ urlOut = Pending
GenIdle ==
    /\ kind = "Listing" /\ pages = <<>> /\ gListing = <<>> /\ gIndex = 0
    /\ gParam = None /\ gExhausted = FALSE /\ gDone = FALSE
    /\ requests = 0 /\ yielded = <<>>

NoOp ==
    [op |-> "none", cls |-> "", ref |-> 0, attr |-> "", exc |-> NoExc, msg |-> "",
     ncalls |-> 0, args |-> <<>>, other |-> 0, val |-> <<>>]
EntIdle == comments = <<>> /\ redditors = <<>> /\ subs = <<>> /\ last = NoOp

\* The objector has not been called: raw is JSON null, no call recorded.
ObjIdle == raw = [t |-> "null"] /\ objLast = [op |-> "", exc |-> NoExc, val |-> [t |-> "null"]]

InitUrl == url \in Urls /\ urlOut = Pending /\ GenIdle /\ EntIdle /\ ObjIdle

\* A caller applies Comment.id_from_url to the URL.
CallIdFromUrl ==
    /\ urlOut = Pending
    /\ urlOut' = IdFromUrl(url)
    /\ UNCHANGED <<url, genVars, entVars, objVars>>

NextUrl == CallIdFromUrl

SpecUrl == InitUrl /\ [][NextUrl]_vars

(***************************************************************************)
(* Listings.  A page is the payload the server returned for it: the child  *)
(* array under the subtype's CHILD_ATTRIBUTE and the cursor fields.  A     *)
(* field the payload does not carry is Absent; has_next_page is "true",    *)
(* "false" or Absent.  A child is its id.                                  *)
(***************************************************************************)
MaxPages == 3
MaxKids == 2
Kinds == {"Listing", "FlairListing", "ModNoteListing", "ModeratorListing",
          "ModmailConversationsListing"}
Cursor == "c1"

\* Listing.CHILD_ATTRIBUTE and its overrides
ChildAttribute(k) ==
    CASE k = "FlairListing" -> "users"
      [] k = "ModNoteListing" -> "mod_notes"
      [] k = "ModeratorListing" -> "moderators"
      [] k = "ModmailConversationsListing" -> "conversations"
      [] OTHER -> "children"

\* Listing.AFTER_PARAM and its override
AfterParam(k) == IF k = "ModNoteListing" THEN "before" ELSE "after"

ListingLenOffByOne(k, p) ==
    IF Len(p[ChildAttribute(k)]) > 1 THEN Len(p[ChildAttribute(k)]) - 1
    ELSE Len(p[ChildAttribute(k)])

\* Listing.__len__
ListingLen(k, p) == Len(p[ChildAttribute(k)])

\* Listing.__getitem__ (index is 0-based, as in Python)
ListingGetItem(k, p, index) == p[ChildAttribute(k)][index + 1]

\* getattr(obj, name, default)
GetAttrOr(p, name, default) == IF p[name] = Absent THEN default ELSE p[name]

\* FlairListing.after
FlairAfter(p) == GetAttrOr(p, "next", None)

ModNoteAfterIgnoresFlag(p) == GetAttrOr(p, "end_cursor", None)

\* ModNoteListing.after with False as the default of has_next_page
ModNoteAfterAbsentIsDone(p) ==
    IF GetAttrOr(p, "has_next_page", "false") # "true" THEN None
    ELSE GetAttrOr(p, "end_cursor", None)

\* ModNoteListing.after
ModNoteAfter(p) ==
    IF GetAttrOr(p, "has_next_page", "true") # "true" THEN None
    ELSE GetAttrOr(p, "end_cursor", None)

\* ModmailConversationsListing.after taking conversations[0]
ModmailAfterFirst(p) ==
    IF Len(p.conversations) = 0 THEN None ELSE Head(p.conversations)

\* ModmailConversationsListing.after: conversations[-1].id, None on IndexError
ModmailAfter(p) ==
    IF Len(p.conversations) = 0 THEN None ELSE Last(p.conversations)

\* The "after" of a plain Listing (and of ModeratorListing) is the attribute
\* the payload set; absent or null is the done sentinel.
PlainAfter(p) == GetAttrOr(p, "after", None)

\* listing.after, dispatched on the listing's class
After(k, p) ==
    CASE k = "FlairListing" -> FlairAfter(p)
      [] k = "ModNoteListing" -> ModNoteAfter(p)
      [] k = "ModmailConversationsListing" -> ModmailAfter(p)
      [] OTHER -> PlainAfter(p)

EmptyPayload ==
    [children |-> <<>>, users |-> <<>>, mod_notes |-> <<>>, moderators |-> <<>>,
     conversations |-> <<>>, after |-> Absent, next |-> Absent,
     has_next_page |-> Absent, end_cursor |-> Absent]

\* The ids of the n children of page i: distinct over the whole walk.
KidIds(i, n) == [j \in 1..n |-> "k" \o ToString(10 * i + j)]

\* The cursor fields a payload of subtype k may carry.
CursorFields(k) ==
    CASE k = "FlairListing" -> {[EmptyPayload EXCEPT !.next = c] : c \in {Absent, None, Cursor}}
      [] k = "ModNoteListing" ->
            {[EmptyPayload EXCEPT !.has_next_page = h, !.end_cursor = c] :
                h \in {Absent, "true", "false"}, c \in {Absent, Cursor}}
      [] k = "ModmailConversationsListing" -> {EmptyPayload}
      [] OTHER -> {[EmptyPayload EXCEPT !.after = c] : c \in {Absent, None, Cursor}}

\* Page i of a walk of subtype k, with n children.
PagesAt(k, i) ==
    {[f EXCEPT ![ChildAttribute(k)] = KidIds(i, n)] : f \in CursorFields(k), n \in 0..MaxKids}

\* What the server answers to the r-th request: its r-th page, and an empty
\* page once it has no more.
ServerPage(r) == IF r <= Len(pages) THEN pages[r] ELSE EmptyPayload

InitListing ==
    /\ kind \in Kinds
    /\ pages = <<>>
    /\ gListing = <<>> /\ gIndex = 0 /\ gParam = None
    /\ gExhausted = FALSE /\ gDone = FALSE
    /\ requests = 0 /\ yielded = <<>>
    /\ UrlIdle /\ EntIdle /\ ObjIdle

\* Before the first request the server is given one more page to serve.
ServerAddPage ==
    /\ requests = 0
    /\ Len(pages) < MaxPages
    /\ \E p \in PagesAt(kind, Len(pages) + 1) : pages' = Append(pages, p)
    /\ UNCHANGED <<kind, gListing, gIndex, gParam, gExhausted, gDone, requests, yielded, urlVars, entVars, objVars>>

\* The generator holds a page with a child it has not yielded yet.
HasBuffered == gListing # <<>> /\ gIndex < ListingLen(kind, gListing[1])

\* A generator that prefetches: with the last buffered child it yields, it
\* already requests the next page.
YieldBufferedPrefetches ==
    /\ ~gDone /\ HasBuffered
    /\ yielded' = Append(yielded, ListingGetItem(kind, gListing[1], gIndex))
    /\ IF gIndex + 1 = ListingLen(kind, gListing[1]) /\ ~gExhausted
       THEN LET page == ServerPage(requests + 1) IN
            /\ requests' = requests + 1
            /\ gListing' = <<page>>
            /\ gIndex' = 0
            /\ gExhausted' = (ListingLen(kind, page) = 0 \/ After(kind, page) = None)
            /\ gParam' = IF ListingLen(kind, page) = 0 \/ After(kind, page) = None
                         THEN gParam ELSE After(kind, page)
       ELSE /\ gIndex' = gIndex + 1
            /\ UNCHANGED <<gListing, gParam, gExhausted, requests>>
    /\ UNCHANGED <<kind, pages, gDone, urlVars, entVars, objVars>>

\* The consumer advances the generator and a buffered child is yielded:
\* no request is made.
YieldBuffered ==
    /\ ~gDone /\ HasBuffered
    /\ yielded' = Append(yielded, ListingGetItem(kind, gListing[1], gIndex))
    /\ gIndex' = gIndex + 1
    /\ UNCHANGED <<kind, pages, gListing, gParam, gExhausted, gDone, requests, urlVars, entVars, objVars>>

\* The consumer advances the generator past the last child of a page that
\* carried the done sentinel: the generator terminates without a request.
StopExhausted ==
    /\ ~gDone /\ ~HasBuffered /\ gExhausted
    /\ gDone' = TRUE
    /\ UNCHANGED <<kind, pages, gListing, gIndex, gParam, gExhausted, requests, yielded, urlVars, entVars, objVars>>

\* The consumer advances the generator and the next page is requested with
\* the current cursor.  A page without children ends the walk; otherwise
\* the cursor advances to the page's "after" (the done sentinel marks the
\* generator exhausted) and the first child is yielded.
FetchPage ==
    /\ ~gDone /\ ~HasBuffered /\ ~gExhausted
    /\ requests' = requests + 1
    /\ LET page == ServerPage(requests + 1) IN
       /\ gListing' = <<page>>
       /\ IF ListingLen(kind, page) = 0
          THEN /\ gDone' = TRUE
               /\ gIndex' = 0
               /\ UNCHANGED <<gParam, gExhausted, yielded>>
          ELSE /\ gDone' = FALSE
               /\ gExhausted' = (After(kind, page) = None)
               /\ gParam' = IF After(kind, page) = None THEN gParam ELSE After(kind, page)
               /\ yielded' = Append(yielded, ListingGetItem(kind, page, 0))
               /\ gIndex' = 1
    /\ UNCHANGED <<kind, pages, urlVars, entVars, objVars>>

NextListing == ServerAddPage \/ YieldBuffered \/ StopExhausted \/ FetchPage

SpecListing == InitListing /\ [][NextListing]_vars

(***************************************************************************)
(* Entities.  An object is its __dict__: a record with one field per key,  *)
(* Absent for a key the __dict__ does not hold.  A reference to an object  *)
(* is its position in comments / redditors / subs; 0 is None.  An optional *)
(* argument is <<>> when it is left None and <<v>> when v is passed.       *)
(***************************************************************************)
MaxUserComments == 1    \* Comments the caller constructs
MaxComments == 3        \* Comment objects in all, the server's included
MaxRedditors == 1       \* Redditors the caller constructs

Ids == {"c1", "C1", "c2"}
ServerIds == {"c1", "c2"}   \* the ids the server reports
UserBody == "b1"        \* the body in a payload the caller supplies
ServerBody == "b2"      \* the body the server reports
LinkId == "t3_s1"
Names == {"u1", "U1"}
UserFullname == "t2_9"
Karmas == {"k1"}

\* str.lower() on the strings of the model
Lower(s) ==
    CASE s = "C1" -> "c1"
      [] s = "U1" -> "u1"
      [] OTHER -> s

NoArg == <<>>
Given(a) == a # <<>>

\* sum(1 for value in (a, b, c) if value is not None)
CountGiven(a, b, c) == Cardinality({i \in 1..3 : Given(<<a, b, c>>[i])})

Raise(e, m) == [exc |-> e, msg |-> m, obj |-> <<>>]
Built(o) == [exc |-> NoExc, msg |-> "", obj |-> <<o>>]

\* The empty string as a URL.
EmptyUrl == [netloc |-> FALSE, segs |-> <<"">>]
\* "https://reddit.com/comments/a/b/<id>/"
PermalinkOf(id) == [netloc |-> TRUE, segs |-> <<"", "comments", "a", "b", id, "">>]
\* "https://reddit.com/comments/a"
ShortUrl == [netloc |-> TRUE, segs |-> <<"", "comments", "a">>]

\* The Comment's __dict__ right after "self._replies = []" and
\* "self._submission = None".  forest tells whether _replies has been
\* turned into a CommentForest.
NewCommentDict ==
    [id |-> Absent, body |-> Absent, link_id |-> Absent, parent_id |-> Absent,
     author |-> <<>>,
     _submission |-> 0, _replies |-> <<>>, forest |-> FALSE, _fetched |-> FALSE]

\* PRAWBase.__init__: every key of the payload is set as an attribute.
CommentSetData(d, data) ==
    [d EXCEPT !.id = IF data.id # Absent THEN data.id ELSE @,
              !.body = IF data.body # Absent THEN data.body ELSE @,
              !.link_id = IF data.link_id # Absent THEN data.link_id ELSE @,
              !.parent_id = IF data.parent_id # Absent THEN data.parent_id ELSE @]

\* Comment.STR_FIELD
CommentStrFieldIsBody == "body"
CommentStrField == "id"

\* RedditBase.__init__: keeps the fetched flag and rejects an object whose
\* STR_FIELD was not set.
CommentBaseInit(d, fetched) ==
    IF d[CommentStrField] = Absent
    THEN Raise("ValueError", "An invalid value was specified for " \o CommentStrField \o ".")
    ELSE Built([d EXCEPT !._fetched = fetched])

CommentCtorMessage == "Exactly one of 'id', 'url', or '_data' must be provided."

CommentInitCountsTruthy(id, urlArg, data) ==
    IF CountGiven(IF id = <<"">> THEN NoArg ELSE id,
                  IF urlArg = <<EmptyUrl>> THEN NoArg ELSE urlArg, data) # 1
    THEN Raise("TypeError", CommentCtorMessage)
    ELSE IF Given(id) THEN CommentBaseInit([NewCommentDict EXCEPT !.id = id[1]], FALSE)
    ELSE IF Given(urlArg)
    THEN LET r == IdFromUrl(urlArg[1]) IN
         IF r.exc # NoExc THEN Raise(r.exc, "")
         ELSE CommentBaseInit([NewCommentDict EXCEPT !.id = r.val], FALSE)
    ELSE CommentBaseInit(CommentSetData(NewCommentDict, data[1]), TRUE)

CommentInitAtLeastOne(id, urlArg, data) ==
    IF CountGiven(id, urlArg, data) < 1
    THEN Raise("TypeError", CommentCtorMessage)
    ELSE IF Given(id) /\ id[1] # ""
    THEN CommentBaseInit([NewCommentDict EXCEPT !.id = id[1]], FALSE)
    ELSE IF Given(urlArg) /\ urlArg[1] # EmptyUrl
    THEN LET r == IdFromUrl(urlArg[1]) IN
         IF r.exc # NoExc THEN Raise(r.exc, "")
         ELSE CommentBaseInit([NewCommentDict EXCEPT !.id = r.val], FALSE)
    ELSE CommentBaseInit(IF Given(data) THEN CommentSetData(NewCommentDict, data[1])
                         ELSE NewCommentDict, TRUE)

CommentInitDataUnfetched(id, urlArg, data) ==
    IF CountGiven(id, urlArg, data) # 1
    THEN Raise("TypeError", CommentCtorMessage)
    ELSE IF Given(id) /\ id[1] # ""
    THEN CommentBaseInit([NewCommentDict EXCEPT !.id = id[1]], FALSE)
    ELSE IF Given(urlArg) /\ urlArg[1] # EmptyUrl
    THEN LET r == IdFromUrl(urlArg[1]) IN
         IF r.exc # NoExc THEN Raise(r.exc, "")
         ELSE CommentBaseInit([NewCommentDict EXCEPT !.id = r.val], FALSE)
    ELSE CommentBaseInit(IF Given(data) THEN CommentSetData(NewCommentDict, data[1])
                         ELSE NewCommentDict, FALSE)

\* Comment.__init__: the outcome of Comment(reddit, id, urlArg, _data)
CommentInit(id, urlArg, data) ==
    IF CountGiven(id, urlArg, data) # 1
    THEN Raise("TypeError", CommentCtorMessage)
    ELSE IF Given(id) /\ id[1] # ""
    THEN CommentBaseInit([NewCommentDict EXCEPT !.id = id[1]], FALSE)
    ELSE IF Given(urlArg) /\ urlArg[1] # EmptyUrl
    THEN LET r == IdFromUrl(urlArg[1]) IN
         IF r.exc # NoExc THEN Raise(r.exc, "")
         ELSE CommentBaseInit([NewCommentDict EXCEPT !.id = r.val], FALSE)
    ELSE CommentBaseInit(IF Given(data) THEN CommentSetData(NewCommentDict, data[1])
                         ELSE NewCommentDict, TRUE)

\* The Redditor's __dict__ before any attribute is set.
NewRedditorDict ==
    [name |-> Absent, _fullname |-> Absent, karma |-> Absent, _fetched |-> FALSE]

\* PRAWBase.__init__ for a Redditor payload
RedditorSetData(d, data) ==
    [d EXCEPT !.name = IF data.name # Absent THEN data.name ELSE @,
              !.karma = IF data.karma # Absent THEN data.karma ELSE @]

\* RedditBase.__init__ with _extra_attribute_to_check = "_fullname": an
\* object that has neither STR_FIELD ("name") nor "_fullname" is rejected.
\* _fetched is not passed by Redditor.__init__: an object built from a
\* payload is Fetched, a shallow one is not.
RedditorBaseInit(d, fromData) ==
    IF d.name = Absent /\ d._fullname = Absent
    THEN Raise("ValueError", "An invalid value was specified for name.")
    ELSE Built([d EXCEPT !._fetched = fromData])

\* The payload {}: "if _data" is false for it.
EmptyRedditorPayload == [name |-> Absent, karma |-> Absent]

RedditorCtorMessage == "Exactly one of 'name', 'fullname', or '_data' must be provided."

\* Redditor.__init__: the outcome of Redditor(reddit, name, fullname, _data)
RedditorInit(name, fullname, data) ==
    IF CountGiven(name, fullname, data) # 1
    THEN Raise("TypeError", RedditorCtorMessage)
    ELSE IF Given(data) /\ data[1] # EmptyRedditorPayload /\ data[1].name = Absent
    THEN Raise("AssertionError", "Please file a bug with PRAW.")
    ELSE LET d0 == IF Given(name) /\ name[1] # ""
                   THEN [NewRedditorDict EXCEPT !.name = name[1]]
                   ELSE IF Given(fullname) /\ fullname[1] # ""
                   THEN [NewRedditorDict EXCEPT !._fullname = fullname[1]]
                   ELSE NewRedditorDict
         IN RedditorBaseInit(IF Given(data) THEN RedditorSetData(d0, data[1]) ELSE d0,
                             Given(data))

\* The arguments the callers of the model pass to the constructors: a
\* payload is the minimal {"id": i} of the unit tests or a full one.
IdArgs == {NoArg, <<"">>} \cup {<<i>> : i \in Ids}
UrlArgs == {NoArg, <<EmptyUrl>>, <<ShortUrl>>, <<PermalinkOf("c2")>>}
\* The payload {"id": i}
MinimalPayload(i) == [id |-> i, body |-> Absent, link_id |-> Absent, parent_id |-> Absent]
CommentPayloads ==
    {MinimalPayload(i) : i \in Ids}
    \cup {[id |-> "c1", body |-> UserBody, link_id |-> LinkId, parent_id |-> "t1_c2"]}
CommentDataArgs == {NoArg} \cup {<<d>> : d \in CommentPayloads}
\* Every call with exactly one argument, and for each other choice of which
\* arguments are passed, calls with empty and with non-empty strings.
CommentCtorArgs ==
    {t \in IdArgs \X UrlArgs \X CommentDataArgs : CountGiven(t[1], t[2], t[3]) = 1}
    \cup ({NoArg, <<"">>, <<"c1">>} \X {NoArg, <<EmptyUrl>>, <<PermalinkOf("c2")>>}
          \X {NoArg, <<MinimalPayload("c1")>>})
NameArgs == {NoArg, <<"">>} \cup {<<n>> : n \in Names}
FullnameArgs == {NoArg, <<"">>, <<UserFullname>>}
RedditorPayloads == [name : {Absent} \cup Names, karma : {Absent} \cup Karmas]
RedditorDataArgs == {NoArg} \cup {<<d>> : d \in RedditorPayloads}
RedditorCtorArgs ==
    {t \in NameArgs \X FullnameArgs \X RedditorDataArgs : CountGiven(t[1], t[2], t[3]) = 1}
    \cup ({NoArg, <<"">>, <<"u1">>} \X {NoArg, <<"">>, <<UserFullname>>}
          \X {NoArg, <<[name |-> "u1", karma |-> Absent]>>})

\* What the caller observes of an operation: the operation, the object it
\* was applied to, the exception raised (NoExc for a normal return), the
\* number of requests the executor received during it and, where they apply,
\* the arguments, the second operand and the value returned.
Op(op, cls, ref, attr, exc, msg, ncalls) ==
    [op |-> op, cls |-> cls, ref |-> ref, attr |-> attr, exc |-> exc, msg |-> msg,
     ncalls |-> ncalls, args |-> <<>>, other |-> 0, val |-> <<>>]

InitEnt ==
    /\ comments = <<>> /\ redditors = <<>> /\ subs = <<>> /\ last = NoOp
    /\ UrlIdle /\ GenIdle /\ ObjIdle

\* A caller evaluates Comment(reddit, id, url, _data).  (A behaviour follows
\* Comments or Redditors: the two classes share no state.)
NewCommentWith(id, urlArg, data) ==
    LET r == CommentInit(id, urlArg, data) IN
    /\ redditors = <<>>
    /\ Len(comments) < MaxUserComments
    /\ comments' = IF r.exc = NoExc THEN Append(comments, r.obj[1]) ELSE comments
    /\ last' = [Op("new", "Comment", IF r.exc = NoExc THEN Len(comments) + 1 ELSE 0,
                     "", r.exc, r.msg, 0) EXCEPT !.args = <<id, urlArg, data>>]
    /\ UNCHANGED <<redditors, subs, urlVars, genVars, objVars>>

NewComment == \E t \in CommentCtorArgs : NewCommentWith(t[1], t[2], t[3])

\* A caller evaluates Redditor(reddit, name, fullname, _data).
NewRedditorWith(name, fullname, data) ==
    LET r == RedditorInit(name, fullname, data) IN
    /\ comments = <<>>
    /\ Len(redditors) < MaxRedditors
    /\ redditors' = IF r.exc = NoExc THEN Append(redditors, r.obj[1]) ELSE redditors
    /\ last' = [Op("new", "Redditor", IF r.exc = NoExc THEN Len(redditors) + 1 ELSE 0,
                     "", r.exc, r.msg, 0) EXCEPT !.args = <<name, fullname, data>>]
    /\ UNCHANGED <<comments, subs, urlVars, genVars, objVars>>

NewRedditor == \E t \in RedditorCtorArgs : NewRedditorWith(t[1], t[2], t[3])

(***************************************************************************)
(* The request executor.  A request raises a transport error or returns    *)
(* what the server sends.                                                  *)
(***************************************************************************)
Transport == "TransportError"

\* GET info?id=<fullname>: a listing with no child, or with one comment.
\* On the server comment c1 is a reply to comment c2, and c2 a reply to the
\* submission.
ServerParentOf(id) == CASE id = "c1" -> "t1_c2" [] OTHER -> LinkId
ServerComments ==
    {[id |-> i, body |-> ServerBody, link_id |-> LinkId, parent_id |-> ServerParentOf(i)] :
        i \in ServerIds}
InfoResponses ==
    {[exc |-> Transport, children |-> <<>>], [exc |-> NoExc, children |-> <<>>]}
    \cup {[exc |-> NoExc, children |-> <<d>>] : d \in ServerComments}

\* GET user_by_fullname?ids=<fullname>: the name registered for the fullname.
UsernameResponses ==
    {[exc |-> Transport, name |-> Absent]} \cup {[exc |-> NoExc, name |-> n] : n \in Names}

\* GET user/<name>/about: the Redditor's data.
AboutResponses ==
    {[exc |-> Transport, data |-> [name |-> Absent, karma |-> Absent]]}
    \cup {[exc |-> NoExc, data |-> [name |-> n, karma |-> k]] : n \in Names, k \in Karmas}

(***************************************************************************)
(* Attribute reads.                                                        *)
(***************************************************************************)
\* The attributes the callers of the model read: the identity field, one the
\* server supplies and one that no payload ever carries ("mark_as_read").
CommentAttrs == {"id", "body", "mark_as_read"}
RedditorAttrs == {"name", "karma", "mark_as_read"}

\* name in self.__dict__
InDict(d, a) == a \in DOMAIN d /\ d[a] # Absent

\* FullnameMixin.fullname: "<kind>_<id>"
KindComment == "t1"
Fullname(d) == KindComment \o "_" \o d.id

CommentDictUpdateDropsFetched(d, other, withSubmission) ==
    [id |-> IF other.id # Absent THEN other.id ELSE d.id,
     body |-> IF other.body # Absent THEN other.body ELSE d.body,
     link_id |-> IF other.link_id # Absent THEN other.link_id ELSE d.link_id,
     parent_id |-> IF other.parent_id # Absent THEN other.parent_id ELSE d.parent_id,
     author |-> IF other.author # <<>> THEN other.author ELSE d.author,
     _submission |-> IF withSubmission THEN other._submission ELSE d._submission,
     _replies |-> other._replies,
     forest |-> other.forest,
     _fetched |-> FALSE]

\* dict.update of a Comment's __dict__ with another Comment's: every key of
\* the other object is written, the keys it lacks are left alone.
\* withSubmission tells whether the other __dict__ still has "_submission".
CommentDictUpdate(d, other, withSubmission) ==
    [id |-> IF other.id # Absent THEN other.id ELSE d.id,
     body |-> IF other.body # Absent THEN other.body ELSE d.body,
     link_id |-> IF other.link_id # Absent THEN other.link_id ELSE d.link_id,
     parent_id |-> IF other.parent_id # Absent THEN other.parent_id ELSE d.parent_id,
     author |-> IF other.author # <<>> THEN other.author ELSE d.author,
     _submission |-> IF withSubmission THEN other._submission ELSE d._submission,
     _replies |-> other._replies,
     forest |-> other.forest,
     _fetched |-> other._fetched]

Fetched(d, n) == [exc |-> NoExc, msg |-> "", dict |-> d, ncalls |-> n]
FetchFailed(e, m, d, n) == [exc |-> e, msg |-> m, dict |-> d, ncalls |-> n]

\* Comment._fetch marking the Comment Fetched before it tests the children
CommentFetchMarksFirst(d, resp) ==
    IF resp.exc # NoExc THEN FetchFailed(resp.exc, "", d, 1)
    ELSE IF resp.children = <<>>
    THEN FetchFailed("ClientException", "No data returned for comment " \o Fullname(d),
                     [d EXCEPT !._fetched = TRUE], 1)
    ELSE LET other == CommentInit(NoArg, NoArg, <<resp.children[1]>>) IN
         IF other.exc # NoExc THEN FetchFailed(other.exc, other.msg, d, 1)
         ELSE Fetched([CommentDictUpdate(d, other.obj[1], TRUE) EXCEPT !._fetched = TRUE], 1)

\* Comment._fetch, given the executor's answer to the info request
CommentFetch(d, resp) ==
    IF resp.exc # NoExc THEN FetchFailed(resp.exc, "", d, 1)
    ELSE IF resp.children = <<>>
    THEN FetchFailed("ClientException", "No data returned for comment " \o Fullname(d), d, 1)
    ELSE LET other == CommentInit(NoArg, NoArg, <<resp.children[1]>>) IN
         IF other.exc # NoExc THEN FetchFailed(other.exc, other.msg, d, 1)
         ELSE Fetched([CommentDictUpdate(d, other.obj[1], TRUE) EXCEPT !._fetched = TRUE], 1)

\* dict.update of a Redditor's __dict__ with another Redditor's
RedditorDictUpdate(d, other) ==
    [name |-> IF other.name # Absent THEN other.name ELSE d.name,
     _fullname |-> IF other._fullname # Absent THEN other._fullname ELSE d._fullname,
     karma |-> IF other.karma # Absent THEN other.karma ELSE d.karma,
     _fetched |-> other._fetched]

RedditorFetchInfoNoLookup(d, uresp) == Fetched(d, 0)

\* Redditor._fetch_info: with a _fullname the name is looked up first
\* (Redditor._fetch_username, one request) and assigned.
RedditorFetchInfo(d, uresp) ==
    IF d._fullname = Absent THEN Fetched(d, 0)
    ELSE IF uresp.exc # NoExc THEN FetchFailed(uresp.exc, "", d, 1)
    ELSE Fetched([d EXCEPT !.name = uresp.name], 1)

\* Redditor._fetch, given the executor's answers
RedditorFetch(d, uresp, aresp) ==
    LET info == RedditorFetchInfo(d, uresp) IN
    IF info.exc # NoExc THEN info
    ELSE IF aresp.exc # NoExc THEN FetchFailed(aresp.exc, "", info.dict, info.ncalls + 1)
    ELSE LET other == RedditorInit(NoArg, NoArg, <<aresp.data>>) IN
         IF other.exc # NoExc
         THEN FetchFailed(other.exc, other.msg, info.dict, info.ncalls + 1)
         ELSE Fetched([RedditorDictUpdate(info.dict, other.obj[1]) EXCEPT !._fetched = TRUE],
                      info.ncalls + 1)

\* getattr(obj, a) once a fetch, if any, is over: the value or AttributeError.
Resolve(d, a) == IF InDict(d, a) THEN NoExc ELSE "AttributeError"

\* A caller reads comments[c].a and the attribute is cached, or the Comment is
\* Fetched: the read resolves without a request.
ReadCommentCached(c, a) ==
    /\ InDict(comments[c], a) \/ comments[c]._fetched
    /\ last' = Op("read", "Comment", c, a, Resolve(comments[c], a), "", 0)
    /\ UNCHANGED <<comments, redditors, subs, urlVars, genVars, objVars>>

\* A caller reads comments[c].a, the attribute is not cached and the Comment
\* is Unfetched: RedditBase.__getattr__ runs Comment._fetch and resolves the
\* read again.
ReadCommentFetch(c, a, resp) ==
    /\ ~InDict(comments[c], a) /\ ~comments[c]._fetched
    /\ LET f == CommentFetch(comments[c], resp) IN
       /\ comments' = [comments EXCEPT ![c] = f.dict]
       /\ last' = [Op("read", "Comment", c, a,
                      IF f.exc # NoExc THEN f.exc ELSE Resolve(f.dict, a), f.msg, f.ncalls)
                    EXCEPT !.args = <<resp>>]
    /\ UNCHANGED <<redditors, subs, urlVars, genVars, objVars>>

ReadComment ==
    \E c \in 1..Len(comments), a \in CommentAttrs :
        \/ ReadCommentCached(c, a)
        \/ \E resp \in InfoResponses : ReadCommentFetch(c, a, resp)

\* A caller reads redditors[r].a without a request.
ReadRedditorCached(r, a) ==
    /\ InDict(redditors[r], a) \/ redditors[r]._fetched
    /\ last' = Op("read", "Redditor", r, a, Resolve(redditors[r], a), "", 0)
    /\ UNCHANGED <<comments, redditors, subs, urlVars, genVars, objVars>>

\* A caller reads redditors[r].a (not the identity field) and the read runs
\* Redditor._fetch.  (last.args of a fetching read: the answers to the
\* requests it issued, in order.)
ReadRedditorFetch(r, a, uresp, aresp) ==
    /\ ~InDict(redditors[r], a) /\ ~redditors[r]._fetched
    /\ a # "name"
    /\ LET f == RedditorFetch(redditors[r], uresp, aresp) IN
       /\ redditors' = [redditors EXCEPT ![r] = f.dict]
       /\ last' = [Op("read", "Redditor", r, a,
                      IF f.exc # NoExc THEN f.exc ELSE Resolve(f.dict, a), f.msg, f.ncalls)
                    EXCEPT !.args = SubSeq(IF redditors[r]._fullname # Absent
                                           THEN <<uresp, aresp>> ELSE <<aresp>>,
                                           1, f.ncalls)]
    /\ UNCHANGED <<comments, subs, urlVars, genVars, objVars>>

ReadRedditor ==
    \E r \in 1..Len(redditors), a \in RedditorAttrs :
        \/ ReadRedditorCached(r, a)
        \/ \E uresp \in UsernameResponses, aresp \in AboutResponses :
                ReadRedditorFetch(r, a, uresp, aresp)

(***************************************************************************)
(* Comment.refresh.  The Comments of the model have no "context",          *)
(* "reply_limit" or "reply_sort" key, and the server sends no MoreComments.*)
(***************************************************************************)
RefreshBody == "b3"     \* the body the server reports in a comment tree
\* The most comments a tree can hold: the room one Comment leaves.
TreeRoom == MaxComments - 1

RECURSIVE SeqsUpTo(_, _)
SeqsUpTo(S, n) ==
    IF n = 0 THEN {<<>>}
    ELSE SeqsUpTo(S, n - 1) \cup {Append(q, x) : q \in SeqsUpTo(S, n - 1), x \in S}

\* GET comments/<submission>/_/<id>?context=100: the comment tree, a list of
\* comments each with the ids of its replies.
RECURSIVE NodeCount(_)
NodeCount(tree) ==
    IF tree = <<>> THEN 0 ELSE 1 + Len(tree[1].replies) + NodeCount(Tail(tree))

TreeNodes == [id : ServerIds, replies : SeqsUpTo(ServerIds, TreeRoom - 1)]
Trees == {t \in SeqsUpTo(TreeNodes, TreeRoom) : NodeCount(t) <= TreeRoom}
TreeResponses ==
    {[exc |-> Transport, tree |-> <<>>]} \cup {[exc |-> NoExc, tree |-> t] : t \in Trees}

MissingCommentMessage ==
    "This comment does not appear to be in the comment tree"

\* str.split("_", 1)[1] of a link_id
SubmissionIdOf(link) == CASE link = "t3_s1" -> "s1" [] OTHER -> ""

FullnameKeys == {KindComment \o "_" \o i : i \in Ids}

\* Reddit.submission(id): a Submission with an empty _comments_by_id
NewSubmission(id) == [id |-> id, byId |-> [k \in FullnameKeys |-> 0]]

\* The objector's Comment for one node of the tree: built from the node's
\* data, its "replies" stored as the list _replies.
NodeObject(id, parentId, replies) ==
    LET r == CommentInit(NoArg, NoArg,
                         <<[id |-> id, body |-> RefreshBody, link_id |-> LinkId,
                            parent_id |-> parentId]>>)
    IN [r.obj[1] EXCEPT !._replies = replies]

\* The objects of a tree, each node followed by its replies, as they are
\* laid out from position base + 1 on.  A top-level comment of the model is
\* a reply to the submission, a reply carries the fullname of its parent.
RECURSIVE TreeObjects(_, _)
TreeObjects(tree, base) ==
    IF tree = <<>> THEN <<>>
    ELSE LET k == Len(tree[1].replies) IN
         <<NodeObject(tree[1].id, LinkId, [j \in 1..k |-> base + 1 + j])>>
         \o [j \in 1..k |-> NodeObject(tree[1].replies[j],
                                        KindComment \o "_" \o tree[1].id, <<>>)]
         \o TreeObjects(Tail(tree), base + 1 + k)

\* comment_list: the references to the top-level comments of the tree
RECURSIVE TopRefs(_, _)
TopRefs(tree, base) ==
    IF tree = <<>> THEN <<>>
    ELSE <<base + 1>> \o TopRefs(Tail(tree), base + 1 + Len(tree[1].replies))

\* The search loop of refresh (last.other of a refresh is the comment it
\* found): pop the last element of the queue, push its
\* _replies, until the queue is empty or the popped comment has the id.
RECURSIVE FifoSearch(_, _, _, _)
FifoSearch(h, queue, comment, id) ==
    IF queue # <<>> /\ (comment = 0 \/ h[comment].id # id)
    THEN FifoSearch(h, Tail(queue) \o h[Head(queue)]._replies, Head(queue), id)
    ELSE comment

\* (FifoSearch above: the loop popping the first element of the queue)
RECURSIVE LifoSearch(_, _, _, _)
LifoSearch(h, queue, comment, id) ==
    IF queue # <<>> /\ (comment = 0 \/ h[comment].id # id)
    THEN LifoSearch(h, SubSeq(queue, 1, Len(queue) - 1) \o h[Last(queue)]._replies,
                    Last(queue), id)
    ELSE comment

Outcome(e, m, cs, ss, n) == [exc |-> e, msg |-> m, comments |-> cs, subs |-> ss, ncalls |-> n]

\* SubmissionGet without the test of _submission: a Submission is built from
\* link_id on every read.
SubmissionGetIgnoresCached(cs, ss, c, iresp) ==
    LET f == IF InDict(cs[c], "link_id") \/ cs[c]._fetched
             THEN Fetched(cs[c], 0) ELSE CommentFetch(cs[c], iresp)
        d == f.dict
    IN IF f.exc # NoExc
       THEN Outcome(f.exc, f.msg, [cs EXCEPT ![c] = d], ss, f.ncalls)
       ELSE IF ~InDict(d, "link_id")
       THEN Outcome("AttributeError", "", [cs EXCEPT ![c] = d], ss, f.ncalls)
       ELSE Outcome(NoExc, "",
                    [cs EXCEPT ![c] = [d EXCEPT !._submission = Len(ss) + 1]],
                    Append(ss, NewSubmission(SubmissionIdOf(d.link_id))), f.ncalls)

\* Comment.submission (getter) on cs[c]: an unset _submission is built from
\* link_id, which an Unfetched Comment without it fetches first.
SubmissionGet(cs, ss, c, iresp) ==
    IF cs[c]._submission # 0 THEN Outcome(NoExc, "", cs, ss, 0)
    ELSE LET f == IF InDict(cs[c], "link_id") \/ cs[c]._fetched
                  THEN Fetched(cs[c], 0) ELSE CommentFetch(cs[c], iresp)
             d == f.dict
         IN IF f.exc # NoExc
            THEN Outcome(f.exc, f.msg, [cs EXCEPT ![c] = d], ss, f.ncalls)
            ELSE IF ~InDict(d, "link_id")
            THEN Outcome("AttributeError", "", [cs EXCEPT ![c] = d], ss, f.ncalls)
            ELSE Outcome(NoExc, "",
                         [cs EXCEPT ![c] = [d EXCEPT !._submission = Len(ss) + 1]],
                         Append(ss, NewSubmission(SubmissionIdOf(d.link_id))), f.ncalls)

\* "reply.submission = submission" for every reply of comment_list: the
\* setter registers the comment under its fullname, sets _submission and
\* goes on to its replies, which reading "replies" turns into a
\* CommentForest.  The nodes are the objects at base + 1 .. Len(h).
SetSubmissions(h, base, sub) ==
    [i \in 1..Len(h) |->
        IF i > base THEN [h[i] EXCEPT !._submission = sub, !.forest = TRUE] ELSE h[i]]

\* Registered with a setter that does not go on to the replies: only the
\* elements of comment_list are registered.
RegisteredSkipsReplies(byId, h, base) ==
    [k \in DOMAIN byId |->
        LET same == {i \in (base + 1)..Len(h) : Fullname(h[i]) = k /\ h[i].parent_id = LinkId} IN
        IF same = {} THEN byId[k] ELSE CHOOSE i \in same : \A j \in same : j <= i]

\* _comments_by_id after the setter has run over the nodes in order: the
\* last node registered under a fullname stays.
Registered(byId, h, base) ==
    [k \in DOMAIN byId |->
        LET same == {i \in (base + 1)..Len(h) : Fullname(h[i]) = k} IN
        IF same = {} THEN byId[k] ELSE CHOOSE i \in same : \A j \in same : j <= i]

\* The element of a one-element set.  {F(x) : x \in {e}} evaluates e once.
Only(S) == CHOOSE x \in S : TRUE

\* RefreshMerge with the setter run before the test of the id: the tree is
\* registered even when the comment is not in it.
RefreshMergeRegistersFirst(h, ss, c, base, comment, n) ==
    LET sub == h[c]._submission
        h1 == SetSubmissions(h, base, sub)
        ss1 == [ss EXCEPT ![sub].byId = Registered(@, h1, base)]
    IN IF h[comment].id # h[c].id
       THEN Outcome("ClientException", MissingCommentMessage, h1, ss1, n)
       ELSE Outcome(NoExc, "",
                    [h1 EXCEPT ![c] = CommentDictUpdate(h[c], h[comment], FALSE)], ss1, n)

\* RefreshMerge without "del comment.__dict__['_submission']": the found
\* comment's _submission (None) replaces the one that is set, and the
\* self.submission of the loop builds a Submission from link_id.
RefreshMergeTakesFoundSubmission(h, ss, c, base, comment, n) ==
    IF h[comment].id # h[c].id
    THEN Outcome("ClientException", MissingCommentMessage, SubSeq(h, 1, base), ss, n)
    ELSE LET merged == [CommentDictUpdate(h[c], h[comment], TRUE) EXCEPT
                           !._submission = Len(ss) + 1]
             ss1 == Append(ss, NewSubmission(SubmissionIdOf(merged.link_id)))
             h2 == SetSubmissions([h EXCEPT ![c] = merged], base, Len(ss) + 1)
         IN [exc |-> NoExc, msg |-> "", comments |-> h2,
             subs |-> [ss1 EXCEPT ![Len(ss) + 1].byId = Registered(@, h2, base)],
             ncalls |-> n, found |-> comment]

\* refresh from "if comment.id != self.id" on: h is the heap with the
\* objects of the tree at base + 1 .. Len(h), comment the result of the search.
RefreshMerge(h, ss, c, base, comment, n) ==
    IF h[comment].id # h[c].id
    THEN Outcome("ClientException", MissingCommentMessage, SubSeq(h, 1, base), ss, n)
    ELSE LET merged == CommentDictUpdate(h[c], h[comment], h[c]._submission = 0)
             sub == merged._submission
             h2 == SetSubmissions([h EXCEPT ![c] = merged], base, sub)
         IN [exc |-> NoExc, msg |-> "", comments |-> h2,
             subs |-> [ss EXCEPT ![sub].byId = Registered(@, h2, base)], ncalls |-> n,
             found |-> comment]

\* refresh from the search loop on
RefreshSearch(h, ss, c, base, top, n) ==
    Only({RefreshMerge(h, ss, c, base, comment, n) :
            comment \in {LifoSearch(h, top, 0, h[c].id)}})

\* RefreshTree reporting a failed tree request as a missing comment
RefreshTreeWrapsTransport(g, c, tresp) ==
    IF g.exc # NoExc THEN g
    ELSE IF tresp.exc # NoExc \/ tresp.tree = <<>>
    THEN Outcome("ClientException", MissingCommentMessage, g.comments, g.subs, g.ncalls + 1)
    ELSE Only({RefreshSearch(h, g.subs, c, Len(g.comments),
                             TopRefs(tresp.tree, Len(g.comments)), g.ncalls + 1) :
                 h \in {g.comments \o TreeObjects(tresp.tree, Len(g.comments))}})

\* refresh from the tree request on: g is the outcome of "self.submission"
RefreshTree(g, c, tresp) ==
    IF g.exc # NoExc THEN g
    ELSE IF tresp.exc # NoExc
    THEN Outcome(tresp.exc, "", g.comments, g.subs, g.ncalls + 1)
    ELSE IF tresp.tree = <<>>
    THEN Outcome("ClientException", MissingCommentMessage, g.comments, g.subs, g.ncalls + 1)
    ELSE Only({RefreshSearch(h, g.subs, c, Len(g.comments),
                             TopRefs(tresp.tree, Len(g.comments)), g.ncalls + 1) :
                 h \in {g.comments \o TreeObjects(tresp.tree, Len(g.comments))}})

\* Comment.refresh on cs[c], given the executor's answers
RefreshComment(cs, ss, c, iresp, tresp) ==
    Only({RefreshTree(g, c, tresp) : g \in {SubmissionGet(cs, ss, c, iresp)}})

\* Whether "self.submission" in refresh has to fetch link_id
NeedsInfo(d) == d._submission = 0 /\ ~InDict(d, "link_id") /\ ~d._fetched
NoInfo == [exc |-> NoExc, children |-> <<>>]

\* A caller evaluates comments[c].refresh().
Refresh(c, iresp, tresp) ==
    /\ Len(comments) + NodeCount(tresp.tree) <= MaxComments
    /\ \E r \in {RefreshComment(comments, subs, c, iresp, tresp)} :
       /\ comments' = r.comments
       /\ subs' = r.subs
       /\ last' = [Op("refresh", "Comment", c, "", r.exc, r.msg, r.ncalls) EXCEPT
                      !.args = IF NeedsInfo(comments[c]) THEN <<tresp, iresp>>
                               ELSE <<tresp>>,
                      !.other = IF "found" \in DOMAIN r THEN r.found ELSE 0]
    /\ UNCHANGED <<redditors, urlVars, genVars, objVars>>

RefreshAny ==
    \E c \in 1..Len(comments), tresp \in TreeResponses :
        \E iresp \in IF NeedsInfo(comments[c]) THEN InfoResponses ELSE {NoInfo} :
            Refresh(c, iresp, tresp)

(***************************************************************************)
(* Comment.parent and Comment.is_root.                                     *)
(***************************************************************************)
\* reddit.config.kinds["submission"]
KindSubmission == "t3"

\* FullnameMixin.fullname of a Submission
SubmissionFullname(sub) == KindSubmission \o "_" \o sub.id

\* str.split("_", 1)[0] without the split: the whole string
TypePrefixNoSplit(p) == p

\* str.split("_", 1)[0] and [1] on the fullnames of the model
TypePrefix(p) ==
    CASE p = "t3_s1" -> "t3" [] p = "t1_c1" -> "t1" [] p = "t1_c2" -> "t1" [] OTHER -> p
AfterPrefix(p) ==
    CASE p = "t3_s1" -> "s1" [] p = "t1_c1" -> "c1" [] p = "t1_c2" -> "c2" [] OTHER -> ""

\* key in submission._comments_by_id
InIndex(byId, k) == k \in DOMAIN byId /\ byId[k] # 0

\* getattr(comment, a): the __dict__ after the read, the exception it
\* raised and the requests it issued.
CommentGetAttr(d, a, iresp) ==
    IF InDict(d, a) THEN Fetched(d, 0)
    ELSE IF d._fetched THEN FetchFailed("AttributeError", "", d, 0)
    ELSE LET f == CommentFetch(d, iresp) IN
         IF f.exc # NoExc \/ InDict(f.dict, a) THEN f
         ELSE FetchFailed("AttributeError", "", f.dict, f.ncalls)

\* The outcome of parent(): val is <<"Submission", s>> or <<"Comment", c>>.
ParentOutcome(e, m, cs, ss, n, val) ==
    [exc |-> e, msg |-> m, comments |-> cs, subs |-> ss, ncalls |-> n, val |-> val]

ParentResolveSkipsIndex(g, c, n) ==
    IF g.exc # NoExc THEN ParentOutcome(g.exc, g.msg, g.comments, g.subs, n + g.ncalls, <<>>)
    ELSE LET d == g.comments[c]
             s == d._submission
         IN IF d.parent_id = SubmissionFullname(g.subs[s])
               \/ InIndex(g.subs[s].byId, d.parent_id)
            THEN ParentOutcome(NoExc, "", g.comments, g.subs, n + g.ncalls, <<"Submission", s>>)
            ELSE LET r == CommentInit(<<AfterPrefix(d.parent_id)>>, NoArg, NoArg) IN
                 IF r.exc # NoExc
                 THEN ParentOutcome(r.exc, r.msg, g.comments, g.subs, n + g.ncalls, <<>>)
                 ELSE ParentOutcome(NoExc, "",
                                    Append(g.comments, [r.obj[1] EXCEPT !._submission = s]),
                                    g.subs, n + g.ncalls,
                                    <<"Comment", Len(g.comments) + 1>>)

\* parent() once self.parent_id (n requests) and self.submission (outcome g)
\* have been evaluated
ParentResolve(g, c, n) ==
    IF g.exc # NoExc THEN ParentOutcome(g.exc, g.msg, g.comments, g.subs, n + g.ncalls, <<>>)
    ELSE LET d == g.comments[c]
             s == d._submission
             byId == g.subs[s].byId
         IN IF d.parent_id = SubmissionFullname(g.subs[s])
            THEN ParentOutcome(NoExc, "", g.comments, g.subs, n + g.ncalls, <<"Submission", s>>)
            ELSE IF InIndex(byId, d.parent_id)
            THEN ParentOutcome(NoExc, "", g.comments, g.subs, n + g.ncalls,
                               <<"Comment", byId[d.parent_id]>>)
            ELSE LET r == CommentInit(<<AfterPrefix(d.parent_id)>>, NoArg, NoArg) IN
                 IF r.exc # NoExc
                 THEN ParentOutcome(r.exc, r.msg, g.comments, g.subs, n + g.ncalls, <<>>)
                 ELSE ParentOutcome(NoExc, "",
                                    Append(g.comments, [r.obj[1] EXCEPT !._submission = s]),
                                    g.subs, n + g.ncalls,
                                    <<"Comment", Len(g.comments) + 1>>)

\* parent() once self.parent_id has been evaluated with outcome a
ParentAfterRead(cs, ss, c, iresp, a) ==
    IF a.exc # NoExc
    THEN ParentOutcome(a.exc, a.msg, [cs EXCEPT ![c] = a.dict], ss, a.ncalls, <<>>)
    ELSE Only({ParentResolve(g, c, a.ncalls) :
                 g \in {SubmissionGet([cs EXCEPT ![c] = a.dict], ss, c, iresp)}})

\* Comment.parent on cs[c], given the executor's answer to the one info
\* request it can lead to
CommentParent(cs, ss, c, iresp) ==
    Only({ParentAfterRead(cs, ss, c, iresp, a) :
            a \in {CommentGetAttr(cs[c], "parent_id", iresp)}})

\* Whether parent() has to fetch parent_id or link_id
ParentNeedsInfo(d) ==
    ~d._fetched /\ (~InDict(d, "parent_id") \/ (d._submission = 0 /\ ~InDict(d, "link_id")))

\* A caller evaluates comments[c].parent().
Parent(c, iresp) ==
    /\ \E r \in {CommentParent(comments, subs, c, iresp)} :
       /\ Len(r.comments) <= MaxComments
       /\ comments' = r.comments
       /\ subs' = r.subs
       /\ last' = [Op("parent", "Comment", c, "", r.exc, r.msg, r.ncalls) EXCEPT
                      !.val = r.val]
    /\ UNCHANGED <<redditors, urlVars, genVars, objVars>>

ParentAny ==
    \E c \in 1..Len(comments) :
        \E iresp \in IF ParentNeedsInfo(comments[c]) THEN InfoResponses ELSE {NoInfo} :
            Parent(c, iresp)

\* Comment.is_root on d, given the executor's answer to the info request the
\* read of parent_id can lead to: the outcome of the read, and the result.
CommentIsRoot(d, iresp) ==
    LET a == CommentGetAttr(d, "parent_id", iresp) IN
    [exc |-> a.exc, msg |-> a.msg, dict |-> a.dict, ncalls |-> a.ncalls,
     val |-> IF a.exc = NoExc THEN <<TypePrefix(a.dict.parent_id) = KindSubmission>>
             ELSE <<>>]

\* A caller evaluates comments[c].is_root.
IsRoot(c, iresp) ==
    /\ \E r \in {CommentIsRoot(comments[c], iresp)} :
       /\ comments' = [comments EXCEPT ![c] = r.dict]
       /\ last' = [Op("is_root", "Comment", c, "", r.exc, r.msg, r.ncalls) EXCEPT
                      !.val = r.val]
    /\ UNCHANGED <<redditors, subs, urlVars, genVars, objVars>>

IsRootAny ==
    \E c \in 1..Len(comments) :
        \E iresp \in IF ~comments[c]._fetched /\ ~InDict(comments[c], "parent_id")
                      THEN InfoResponses ELSE {NoInfo} :
            IsRoot(c, iresp)

\* replies without the isinstance test: a CommentForest is built on every read
CommentRepliesAlwaysBuilds(cs, ss, c, iresp) ==
    LET g == SubmissionGet(cs, ss, c, iresp) IN
    IF g.exc # NoExc
    THEN [exc |-> g.exc, msg |-> g.msg, comments |-> g.comments, subs |-> g.subs,
          ncalls |-> g.ncalls, val |-> <<>>]
    ELSE [exc |-> NoExc, msg |-> "",
          comments |-> [g.comments EXCEPT ![c].forest = TRUE], subs |-> g.subs,
          ncalls |-> g.ncalls, val |-> <<TRUE, g.comments[c]._submission>>]

\* Comment.replies on cs[c]: a _replies that is still a list becomes
\* CommentForest(self.submission, self._replies), and _replies is returned.
\* val tells whether a CommentForest was built and which submission the
\* forest returned was built with when it was built by this read.
CommentReplies(cs, ss, c, iresp) ==
    IF cs[c].forest
    THEN [exc |-> NoExc, msg |-> "", comments |-> cs, subs |-> ss, ncalls |-> 0,
          val |-> <<FALSE, cs[c]._submission>>]
    ELSE LET g == SubmissionGet(cs, ss, c, iresp) IN
         IF g.exc # NoExc
         THEN [exc |-> g.exc, msg |-> g.msg, comments |-> g.comments, subs |-> g.subs,
               ncalls |-> g.ncalls, val |-> <<>>]
         ELSE [exc |-> NoExc, msg |-> "",
               comments |-> [g.comments EXCEPT ![c].forest = TRUE], subs |-> g.subs,
               ncalls |-> g.ncalls, val |-> <<TRUE, g.comments[c]._submission>>]

\* A caller reads comments[c].replies.
Replies(c, iresp) ==
    /\ \E r \in {CommentReplies(comments, subs, c, iresp)} :
       /\ comments' = r.comments
       /\ subs' = r.subs
       /\ last' = [Op("replies", "Comment", c, "replies", r.exc, r.msg, r.ncalls) EXCEPT
                      !.val = r.val]
    /\ UNCHANGED <<redditors, urlVars, genVars, objVars>>

RepliesAny ==
    \E c \in 1..Len(comments) :
        \E iresp \in IF ~comments[c].forest /\ NeedsInfo(comments[c])
                      THEN InfoResponses ELSE {NoInfo} :
            Replies(c, iresp)

(***************************************************************************)
(* Equality and hash (RedditBase.__eq__, __hash__, __str__).               *)
(***************************************************************************)
\* str(comment): getattr(self, self.STR_FIELD)
CommentStr(d) == d[CommentStrField]

\* comment == other, other a Comment
CommentEq(d, e) == Lower(CommentStr(d)) = Lower(CommentStr(e))

\* comment == other, other a str
CommentEqStr(d, str) == Lower(str) = Lower(CommentStr(d))

\* hash(comment): the hash of the class name combined with the hash of the
\* lower-cased str(); the pair stands for the combination.
CommentHash(d) == <<"Comment", Lower(CommentStr(d))>>

\* A caller evaluates comments[a] == comments[b] and compares their hashes.
CompareComments(a, b) ==
    /\ last' = [Op("eq", "Comment", a, "", NoExc, "", 0) EXCEPT
                   !.other = b,
                   !.val = <<CommentEq(comments[a], comments[b]),
                             CommentHash(comments[a]) = CommentHash(comments[b])>>]
    /\ UNCHANGED <<comments, redditors, subs, urlVars, genVars, objVars>>

\* A caller evaluates comments[a] == str.
CompareCommentStr(a, str) ==
    /\ last' = [Op("eqstr", "Comment", a, str, NoExc, "", 0) EXCEPT
                   !.val = <<CommentEqStr(comments[a], str)>>]
    /\ UNCHANGED <<comments, redditors, subs, urlVars, genVars, objVars>>

Compare ==
    \E a \in 1..Len(comments) :
        \/ \E b \in a..Len(comments) : CompareComments(a, b)
        \/ \E str \in Ids : CompareCommentStr(a, str)

\* Equality and hash are functions of the two operands: they are applied to
\* every pair of Comments that the constructor builds.
BuiltComments ==
    {CommentInit(t[1], t[2], t[3]).obj[1] :
        t \in {u \in CommentCtorArgs : CommentInit(u[1], u[2], u[3]).exc = NoExc}}

InitEq ==
    /\ comments \in {<<a, b>> : a \in BuiltComments, b \in BuiltComments}
    /\ redditors = <<>> /\ subs = <<>> /\ last = NoOp
    /\ UrlIdle /\ GenIdle /\ ObjIdle

NextEq == Compare

SpecEq == InitEq /\ [][NextEq]_vars

NextEnt ==
    \/ NewComment \/ NewRedditor \/ ReadComment \/ ReadRedditor
    \/ RefreshAny \/ ParentAny \/ IsRootAny

Spec == InitEnt /\ [][NextEnt]_vars

(***************************************************************************)
(* Redditor.from_data and the "author" attribute of a Comment.  The author *)
(* of a comment record is <<>> while the attribute is not set, <<None>>    *)
(* when None is stored and <<"Redditor", r>> for the Redditor redditors[r].*)
(***************************************************************************)
MaxAuthors == 2
DeletedSentinel == "[deleted]"
AuthorValues == {NoArg} \cup {<<v>> : v \in {DeletedSentinel, "[DELETED]", "", "u1", "U1"}}

\* from_data without the test for the sentinel
RedditorFromDataNoSentinel(data) == RedditorInit(data, NoArg, NoArg)

\* Redditor.from_data(reddit, data): None for the sentinel, else
\* cls(reddit, data), whose second positional parameter is name.
RedditorFromData(data) ==
    IF data = <<DeletedSentinel>> THEN [exc |-> NoExc, msg |-> "", obj |-> <<>>]
    ELSE RedditorInit(data, NoArg, NoArg)

\* Comment.__setattr__("author", value) on comments[c]: the value stored is
\* what from_data makes of it.
SetAuthor(c, value) ==
    /\ \E r \in {RedditorFromData(value)} :
       /\ r.obj # <<>> => Len(redditors) < MaxAuthors
       /\ redditors' = IF r.obj # <<>> THEN Append(redditors, r.obj[1]) ELSE redditors
       /\ comments' =
             IF r.exc # NoExc THEN comments
             ELSE [comments EXCEPT ![c].author =
                      IF r.obj = <<>> THEN <<None>> ELSE <<"Redditor", Len(redditors) + 1>>]
       /\ last' = [Op("set_author", "Comment", c, "author", r.exc, r.msg, 0) EXCEPT
                      !.args = <<value>>]
    /\ UNCHANGED <<subs, urlVars, genVars, objVars>>

SetAuthorAny == \E c \in 1..Len(comments), value \in AuthorValues : SetAuthor(c, value)

InitAuthor ==
    /\ comments \in {<<a>> : a \in BuiltComments}
    /\ redditors = <<>> /\ subs = <<>> /\ last = NoOp
    /\ UrlIdle /\ GenIdle /\ ObjIdle

NextAuthor == SetAuthorAny

SpecAuthor == InitAuthor /\ [][NextAuthor]_vars

\* "comment.submission = submission" (the setter) for the comments of queue
\* in turn: each is registered under its fullname, takes the submission and
\* hands it on to its replies, whose read wraps _replies in a CommentForest.
\* A Comment without id has no fullname (AttributeError).
RECURSIVE SubmissionSet(_, _, _, _)
SubmissionSet(cs, ss, queue, s) ==
    IF queue = <<>> THEN Outcome(NoExc, "", cs, ss, 0)
    ELSE LET c == Head(queue) IN
         IF ~InDict(cs[c], "id") THEN Outcome("AttributeError", "", cs, ss, 0)
         ELSE SubmissionSet([cs EXCEPT ![c]._submission = s, ![c].forest = TRUE],
                            [ss EXCEPT ![s].byId[Fullname(cs[c])] = c],
                            cs[c]._replies \o Tail(queue), s)

\* A caller assigns subs[s] to comments[c].submission.
AssignSubmission(c, s) ==
    /\ \E r \in {SubmissionSet(comments, subs, <<c>>, s)} :
       /\ comments' = r.comments
       /\ subs' = r.subs
       /\ last' = [Op("set_submission", "Comment", c, "submission", r.exc, r.msg, 0) EXCEPT
                      !.other = s]
    /\ UNCHANGED <<redditors, urlVars, genVars, objVars>>

AssignSubmissionAny ==
    \E c \in 1..Len(comments), s \in 1..Len(subs) : AssignSubmission(c, s)

\* Assignments of a submission to the comments that one constructed Comment
\* leads to, with attribute reads and parent() calls.  (The assignments that
\* refresh makes are in Spec.)
NextAssign ==
    \/ AssignSubmissionAny
    \/ ReadComment
    \/ ParentAny

SpecAssign == InitAuthor /\ [][NextAssign]_vars

\* Reads of replies on one constructed Comment, with the fetches, refreshes
\* and parent() calls that may come between two reads.
NextReplies ==
    \/ RepliesAny
    \/ ReadComment
    \/ RefreshAny
    \/ ParentAny

SpecReplies == InitAuthor /\ [][NextReplies]_vars

(***************************************************************************)
(* The objector: ErrorClassifier (parse_error, check_error) and Objectifier *)
(* (objectify), and the exceptions they build.  A JSON value is a record   *)
(* with its type in t; a mapping gives every key of Keys a value, JAbsent  *)
(* for the keys it does not have.                                          *)
(***************************************************************************)
MaxErrors == 2      \* reported errors in one envelope
MaxItems == 2       \* elements of a raw sequence

JNull == [t |-> "null"]
JAbsent == [t |-> "absent"]
JStr(v) == [t |-> "str", v |-> v]
JList(items) == [t |-> "list", items |-> items]
Keys == {"json", "errors", "kind", "data", "children", "after", "asdf", "id"}
JMap(f) == [t |-> "map", m |-> [k \in Keys |-> IF k \in DOMAIN f THEN f[k] ELSE JAbsent]]

\* "k in r" and r[k] for a mapping r
Has(r, k) == r.t = "map" /\ r.m[k].t # "absent"
Get(r, k) == r.m[k]

\* The error tuples and shapes of test_objector.py
UserRequired == JList(<<JStr("USER_REQUIRED"), JStr("Please log in to do that."), JNull>>)
NoSubject == JList(<<JStr("NO_SUBJECT"), JStr("please enter a subject"), JStr("subject")>>)
ReportedErrors == {UserRequired, NoSubject}
ErrorEnvelope(errors) == JMap([json |-> JMap([errors |-> JList(errors)])])
ErrorEnvelopes == {ErrorEnvelope(e) : e \in SeqsUpTo(ReportedErrors, MaxErrors)}
NotEnvelopes ==
    {JMap(<<>>), JList(<<>>), JMap([asdf |-> JStr("1")]), JMap([json |-> JMap(<<>>)]),
     JMap([errors |-> JList(<<UserRequired>>)]), JList(<<UserRequired>>)}

\* RedditErrorItem(error_type, message, field)
RedditErrorItem(error_type, message, field) ==
    [t |-> "RedditErrorItem", error_type |-> error_type, message |-> message,
     field |-> field]

\* One element of the list given to RedditAPIException: a RedditErrorItem
\* is kept, a raw [error_type, message, field] list becomes one.
ErrorItemOf(x) ==
    IF x.t = "RedditErrorItem" THEN x
    ELSE RedditErrorItem(x.items[1].v, x.items[2].v,
                         IF x.items[3].t = "null" THEN None ELSE x.items[3].v)

\* RedditAPIException(items)
RedditAPIException(items) ==
    [t |-> "RedditAPIException", items |-> [i \in 1..Len(items) |-> ErrorItemOf(items[i])]]

ObjReturn(v) == [exc |-> NoExc, val |-> v]
ObjRaise(e, v) == [exc |-> e, val |-> v]

\* parse_error reporting only the first error of the array
ParseErrorFirstOnly(r) ==
    IF r.t # "map" THEN ObjReturn(JNull)
    ELSE IF ~Has(r, "json") \/ ~Has(Get(r, "json"), "errors") THEN ObjReturn(JNull)
    ELSE LET errors == Get(Get(r, "json"), "errors").items IN
         IF Len(errors) < 1 THEN ObjRaise("ClientException", JNull)
         ELSE ObjReturn(RedditAPIException(<<errors[1]>>))

\* parse_error treating an empty errors array as no error
ParseErrorEmptyIsNone(r) ==
    IF r.t # "map" THEN ObjReturn(JNull)
    ELSE IF ~Has(r, "json") \/ ~Has(Get(r, "json"), "errors") THEN ObjReturn(JNull)
    ELSE LET errors == Get(Get(r, "json"), "errors").items IN
         IF Len(errors) < 1 THEN ObjReturn(JNull)
         ELSE ObjReturn(RedditAPIException(errors))

\* parse_error reading "errors" at the top level when there is no "json"
ParseErrorTopLevelErrors(r) ==
    IF r.t # "map" THEN ObjReturn(JNull)
    ELSE LET j == IF Has(r, "json") THEN Get(r, "json") ELSE r IN
         IF ~Has(j, "errors") THEN ObjReturn(JNull)
         ELSE LET errors == Get(j, "errors").items IN
              IF Len(errors) < 1 THEN ObjRaise("ClientException", JNull)
              ELSE ObjReturn(RedditAPIException(errors))

\* parse_error(r): the exception of the envelope's errors, None when r has
\* no raw["json"]["errors"], ClientException when that array is empty.
ParseError(r) ==
    IF r.t # "map" THEN ObjReturn(JNull)
    ELSE IF ~Has(r, "json") \/ ~Has(Get(r, "json"), "errors") THEN ObjReturn(JNull)
    ELSE LET errors == Get(Get(r, "json"), "errors").items IN
         IF Len(errors) < 1 THEN ObjRaise("ClientException", JNull)
         ELSE ObjReturn(RedditAPIException(errors))

\* check_error(r): raises what parse_error returns
CheckError(r) ==
    LET e == ParseError(r) IN
    IF e.exc # NoExc THEN e
    ELSE IF e.val.t = "RedditAPIException" THEN ObjRaise("RedditAPIException", e.val)
    ELSE ObjReturn(JNull)

\* The static mapping from type tag to entity constructor
Parsers == [t1 |-> "Comment", t2 |-> "Redditor", t3 |-> "Submission"]

\* A mapping with a type tag paired with a nested "data" mapping
Tagged(r) == Has(r, "kind") /\ Has(r, "data") /\ Get(r, "data").t = "map"

\* ListingShaped without the test for a type tag
ListingShapedAnyTag(r) ==
    /\ r.t = "map"
    /\ Has(r, "children") /\ Get(r, "children").t = "list" /\ Has(r, "after")

\* A mapping without a type tag that has a results array and a cursor
ListingShaped(r) ==
    /\ r.t = "map" /\ ~Has(r, "kind")
    /\ Has(r, "children") /\ Get(r, "children").t = "list" /\ Has(r, "after")

\* The cases of objectify, and the raw values each one takes
Rules == {"null", "scalar", "sequence", "entity", "passthrough", "listing", "bag"}
Applies(rule, r) ==
    CASE rule = "null" -> r.t = "null"
      [] rule = "scalar" -> r.t = "str"
      [] rule = "sequence" -> r.t = "list"
      [] rule = "entity" -> Tagged(r) /\ Get(r, "kind").v \in DOMAIN Parsers
      [] rule = "passthrough" -> Tagged(r) /\ Get(r, "kind").v \notin DOMAIN Parsers
      [] rule = "listing" -> ListingShaped(r)
      [] rule = "bag" -> r.t = "map" /\ ~Tagged(r) /\ ~ListingShaped(r)

\* objectify with the elements of a sequence in reverse order
RECURSIVE ObjectifyReversed(_)
ObjectifyReversed(r) ==
    IF r.t = "list"
    THEN JList([i \in 1..Len(r.items) |-> ObjectifyReversed(r.items[Len(r.items) + 1 - i])])
    ELSE IF r.t = "map" THEN [t |-> "bag", attrs |-> r]
    ELSE r

\* objectify(r): the outcome of the one case that takes r; a value no case
\* takes, or more than one takes, is left unhandled.
RECURSIVE Objectify(_)
Objectify(r) ==
    LET rules == {rule \in Rules : Applies(rule, r)} IN
    IF Cardinality(rules) # 1 THEN [t |-> "unhandled", rules |-> rules]
    ELSE LET rule == CHOOSE x \in rules : TRUE IN
         CASE rule = "null" -> JNull
           [] rule = "scalar" -> r
           [] rule = "sequence" -> JList([i \in 1..Len(r.items) |-> Objectify(r.items[i])])
           [] rule = "entity" ->
                [t |-> "entity", cls |-> Parsers[Get(r, "kind").v], attrs |-> Get(r, "data")]
           [] rule = "listing" ->
                [t |-> "listing", cls |-> "Listing",
                 attrs |-> [r EXCEPT !.m["children"] = Objectify(@)]]
           [] OTHER -> [t |-> "bag", attrs |-> r]

\* Raw values: tagged payloads, listing pages, other mappings, sequences
TaggedPayload(tag) == JMap([kind |-> JStr(tag), data |-> JMap([id |-> JStr("x")])])
Tags == {"t1", "t2", "t3", "zz"}
Scalars == {JStr("x"), JStr("1")}
ListingPages ==
    {JMap([children |-> JList(c), after |-> a]) :
        c \in SeqsUpTo({TaggedPayload("t1")}, 1), a \in {JNull, JStr("t1_x")}}
OtherMappings ==
    {JMap(<<>>), JMap([asdf |-> JStr("1")]), JMap([kind |-> JStr("t1")]),
     JMap([kind |-> JStr("t1"), data |-> JStr("x")]),
     JMap([children |-> JList(<<>>)]),
     JMap([kind |-> JStr("zz"), children |-> JList(<<>>), after |-> JNull]),
     JMap([kind |-> JStr("t1"), data |-> JMap([id |-> JStr("x")]),
           children |-> JList(<<>>), after |-> JNull])}
Elements ==
    {JNull, JStr("x"), TaggedPayload("t1"), TaggedPayload("zz"), JList(<<JStr("x")>>)}
Sequences == {JList(q) : q \in SeqsUpTo(Elements, MaxItems)}
RawShapes ==
    {JNull} \cup Scalars \cup Sequences \cup {TaggedPayload(tag) : tag \in Tags}
    \cup ListingPages \cup OtherMappings \cup ErrorEnvelopes \cup NotEnvelopes

\* The arguments of RedditAPIException: raw lists and RedditErrorItems
BadSomething == RedditErrorItem("BAD_SOMETHING", "invalid something", "some_field")
ExceptionArgs ==
    {JList(q) : q \in SeqsUpTo(ReportedErrors \cup {BadSomething}, MaxErrors) \ {<<>>}}
IsRawJson(r) ==
    IF r.t = "list" THEN \A i \in 1..Len(r.items) : r.items[i].t # "RedditErrorItem" ELSE TRUE

\* RedditErrorItem.__eq__ comparing error_type and message only
ItemEqIgnoresField(a, b) ==
    IF b.t = "RedditErrorItem"
    THEN a.error_type = b.error_type /\ a.message = b.message
    ELSE FALSE

\* RedditErrorItem.__eq__(a, b): the three fields are compared when b is a
\* RedditErrorItem, and a value of another type is not equal.
ItemEq(a, b) ==
    IF b.t = "RedditErrorItem"
    THEN <<a.error_type, a.message, a.field>> = <<b.error_type, b.message, b.field>>
    ELSE FALSE

\* What RedditErrorItem.__hash__ hashes: the class name and the three fields.
\* (Two hashes are modelled as equal when what is hashed is equal.)
ItemHash(a) == <<a.t, a.error_type, a.message, a.field>>

\* The pairs compared: a RedditErrorItem with a RedditErrorItem, or with a
\* value of another type (0, None, a raw error list).
ErrorItems ==
    {RedditErrorItem(e, m, f) : e \in {"BAD_SOMETHING", "USER_REQUIRED"},
                                m \in {"invalid something", "please log in"},
                                f \in {None, "some_field"}}
NotItems == {JStr("0"), JNull, UserRequired}
ItemPairs == {JList(<<a, b>>) : a \in ErrorItems, b \in ErrorItems \cup NotItems}

ObjCall(op, res) == [op |-> op, exc |-> res.exc, val |-> res.val]

InitObj ==
    /\ raw \in RawShapes \cup ExceptionArgs \cup ItemPairs
    /\ objLast = ObjCall("", ObjReturn(JNull))
    /\ UrlIdle /\ GenIdle /\ EntIdle

\* A caller applies parse_error / check_error to a response.
CallParseError ==
    /\ raw.t \in {"map", "list"}
    /\ objLast' = ObjCall("parse_error", ParseError(raw))
    /\ UNCHANGED <<raw, urlVars, genVars, entVars>>

CallCheckError ==
    /\ raw.t \in {"map", "list"}
    /\ objLast' = ObjCall("check_error", CheckError(raw))
    /\ UNCHANGED <<raw, urlVars, genVars, entVars>>

\* A caller applies objectify to a raw value.
CallObjectify ==
    /\ IsRawJson(raw)
    /\ objLast' = ObjCall("objectify", ObjReturn(Objectify(raw)))
    /\ UNCHANGED <<raw, urlVars, genVars, entVars>>

\* A caller builds RedditAPIException(items).
CallRedditAPIException ==
    /\ raw \in ExceptionArgs
    /\ objLast' = ObjCall("RedditAPIException", ObjReturn(RedditAPIException(raw.items)))
    /\ UNCHANGED <<raw, urlVars, genVars, entVars>>

\* A caller evaluates error == other and compares hash(error) with the hash
\* of another RedditErrorItem.
CallItemEq ==
    /\ raw \in ItemPairs
    /\ objLast' = ObjCall("eq", ObjReturn(
           [t |-> "cmp",
            eq |-> ItemEq(raw.items[1], raw.items[2]),
            hashes |-> IF raw.items[2].t = "RedditErrorItem"
                       THEN <<ItemHash(raw.items[1]), ItemHash(raw.items[2])>>
                       ELSE <<ItemHash(raw.items[1])>>]))
    /\ UNCHANGED <<raw, urlVars, genVars, entVars>>

NextObj ==
    \/ CallParseError
    \/ CallCheckError
    \/ CallObjectify
    \/ CallRedditAPIException
    \/ CallItemEq

SpecObj == InitObj /\ [][NextObj]_vars

(***************************************************************************)
(* The "after" property read on one listing object.                        *)
(***************************************************************************)
\* The listing objects of subtype k: its children (those of any page of a
\* walk) and any of the cursor attributes a response may have set.
ListingObjects(k) ==
    {[f EXCEPT ![ChildAttribute(k)] = KidIds(i, n)] :
        f \in UNION {CursorFields(j) : j \in Kinds}, i \in 1..MaxPages, n \in 0..MaxKids}

InitAfter ==
    /\ kind \in Kinds
    /\ pages \in {<<p>> : p \in ListingObjects(kind)}
    /\ gListing = <<>> /\ gIndex = 0 /\ gParam = None
    /\ gExhausted = FALSE /\ gDone = FALSE
    /\ requests = 0 /\ yielded = <<>>
    /\ UrlIdle /\ EntIdle /\ ObjIdle

\* A caller reads pages[1].after.
ReadAfter ==
    /\ last' = [Op("after", kind, 0, "after", NoExc, "", 0) EXCEPT
                   !.val = <<After(kind, pages[1])>>]
    /\ UNCHANGED <<comments, redditors, subs, urlVars, genVars, objVars>>

NextAfter == ReadAfter

SpecAfter == InitAfter /\ [][NextAfter]_vars

(***************************************************************************)
(* What the claims about pagination speak of.                              *)
(***************************************************************************)
\* The done sentinel of each subtype, read off the payload: "after" absent
\* or null for plain listings, "next" absent or null for flair listings,
\* has_next_page false (or no end_cursor) for note listings, an empty
\* "conversations" for modmail listings.
DoneSentinel(k, p) ==
    CASE k = "FlairListing" -> p.next \in {Absent, None}
      [] k = "ModNoteListing" -> p.has_next_page = "false" \/ p.end_cursor \in {Absent, None}
      [] k = "ModmailConversationsListing" -> p.conversations = <<>>
      [] OTHER -> p.after \in {Absent, None}

KidsOf(k, p) == p[ChildAttribute(k)]

RECURSIVE AllKidsUpTo(_)
AllKidsUpTo(n) == IF n = 0 THEN <<>> ELSE AllKidsUpTo(n - 1) \o KidsOf(kind, pages[n])

\* Every child of every page, in page order then within-page order.
AllKids == AllKidsUpTo(Len(pages))

IsPrefix(s, t) == Len(s) <= Len(t) /\ SubSeq(t, 1, Len(s)) = s

\* Only the last page carries the done sentinel.
OnlyLastPageDone ==
    /\ Len(pages) >= 1
    /\ \A i \in 1..Len(pages) : DoneSentinel(kind, pages[i]) <=> i = Len(pages)

NoEmptyPageBeforeLast ==
    \A i \in 1..(Len(pages) - 1) : KidsOf(kind, pages[i]) # <<>>

\* The first page that is empty or carries the done sentinel; one past the
\* server's pages when there is none.
StopIndex ==
    LET stops == {i \in 1..Len(pages) :
                    KidsOf(kind, pages[i]) = <<>> \/ DoneSentinel(kind, pages[i])}
    IN IF stops = {} THEN Len(pages) + 1
       ELSE CHOOSE i \in stops : \A j \in stops : i <= j

PagesWithKids == {i \in 1..Len(pages) : KidsOf(kind, pages[i]) # <<>>}

(***************************************************************************)
(* C5 as stated.  For any walk in which only the last page carries the     *)
(* done sentinel, the terminated generator has yielded every child of      *)
(* every page exactly once, in page order then within-page order.          *)
(***************************************************************************)
C5_AllChildrenOnceInOrder ==
    (gDone /\ OnlyLastPageDone) => yielded = AllKids

(***************************************************************************)
(* C5 amended.  What has been yielded is always a prefix of the children   *)
(* in page order then within-page order (none skipped, none repeated), and *)
(* for a walk in which only the last page carries the done sentinel AND no *)
(* page before the last is empty, the terminated generator has yielded     *)
(* them all.                                                               *)
(***************************************************************************)
C5_AllChildrenOnceNoEmptyPage ==
    /\ IsPrefix(yielded, AllKids)
    /\ (gDone /\ OnlyLastPageDone /\ NoEmptyPageBeforeLast) => yielded = AllKids

C5_Witness ==
    /\ gDone /\ OnlyLastPageDone /\ NoEmptyPageBeforeLast
    /\ Len(pages) = MaxPages
    /\ Len(yielded) > MaxPages
    /\ yielded = AllKids

(***************************************************************************)
(* C6 as stated.  For every subtype, when the generator has terminated on  *)
(* a walk in which only the last page carries the done sentinel, it issued *)
(* no request after the last page that holds children, and the number of   *)
(* requests equals the number of pages.                                    *)
(***************************************************************************)
C6_NoRequestAfterLastChildren ==
    (gDone /\ OnlyLastPageDone) =>
        /\ requests = Len(pages)
        /\ \A i \in PagesWithKids : (\A j \in PagesWithKids : j <= i) => requests <= i

(***************************************************************************)
(* C6 amended.  For every subtype the generator stops at the first page    *)
(* that is empty or carries the done sentinel: it never issues a request   *)
(* past that page, and when it has terminated the number of requests is    *)
(* the number of pages up to and including that page.  (A modmail page     *)
(* carries the sentinel only when it is empty, so a modmail walk ends with *)
(* one request after its last page that holds children.)                   *)
(***************************************************************************)
C6_StopsAtFirstDonePage ==
    /\ requests <= StopIndex
    /\ gDone => requests = StopIndex

C6_Witness ==
    /\ gDone
    /\ kind = "ModmailConversationsListing"
    /\ PagesWithKids = 1..(MaxPages - 1)
    /\ requests = MaxPages
    /\ yielded = AllKids


(***************************************************************************)
(* C10.  id_from_url returns the last path segment exactly when the URL    *)
(* has a host and its path parts hold a "comments" segment whose 0-based   *)
(* index is (number of parts - 4); every other URL fails with InvalidURL.  *)
(* Stated as the claim words it: ANY "comments" segment at that offset.    *)
(***************************************************************************)
HasCommentsAtOffset(parts) ==
    \E i \in 1..Len(parts) : parts[i] = "comments" /\ i - 1 = Len(parts) - 4

C10_IdFromUrlIffCommentsAtOffset ==
    urlOut # Pending =>
        LET parts == RStripSlash(url.segs) IN
        IF url.netloc /\ HasCommentsAtOffset(parts)
        THEN urlOut = Returned(Last(parts))
        ELSE urlOut = InvalidURL

(***************************************************************************)
(* Claims about entities, checked under Spec.  Every action of Spec sets   *)
(* last, so in a step last' describes the operation of that step and the   *)
(* unprimed variables are the state the operation started from.            *)
(***************************************************************************)
IsRead(cls, r) == last'.op = "read" /\ last'.cls = cls /\ last'.ref = r

\* An Unfetched Comment is read for an attribute its __dict__ does not hold.
UncachedCommentRead(c) ==
    IsRead("Comment", c) /\ ~comments[c]._fetched /\ ~InDict(comments[c], last'.attr)

\* An Unfetched Redditor is read for an attribute its __dict__ does not hold.
UncachedRedditorRead(r) ==
    IsRead("Redditor", r) /\ ~redditors[r]._fetched /\ ~InDict(redditors[r], last'.attr)

\* A read of an attribute the __dict__ holds issues no request.
CachedReadsAreFree ==
    /\ \A c \in 1..Len(comments) :
          IsRead("Comment", c) /\ InDict(comments[c], last'.attr)
              => last'.ncalls = 0 /\ last'.exc = NoExc
    /\ \A r \in 1..Len(redditors) :
          IsRead("Redditor", r) /\ InDict(redditors[r], last'.attr)
              => last'.ncalls = 0 /\ last'.exc = NoExc

\* C1 as the spec states it: a read of an attribute that is not cached on a
\* shallow entity issues exactly one request, however the entity was built
\* (Comment by id or url, Redditor by name or by fullname), and a read of a
\* cached attribute issues none.
C1_OneRequestPerUncachedRead ==
    [][/\ \A c \in 1..Len(comments) : UncachedCommentRead(c) => last'.ncalls = 1
       /\ \A r \in 1..Len(redditors) : UncachedRedditorRead(r) => last'.ncalls = 1
       /\ CachedReadsAreFree]_vars

\* C1, amended: a read of an attribute that is not cached issues exactly one
\* request on a shallow Comment and on a shallow Redditor built by name; on
\* a Redditor freshly built by fullname it first issues the username lookup
\* and, unless that request fails (the name is still unset), the fetch
\* itself: two requests.  A read of a cached attribute issues none.
C1_OneRequestUnlessByFullname ==
    [][/\ \A c \in 1..Len(comments) : UncachedCommentRead(c) => last'.ncalls = 1
       /\ \A r \in 1..Len(redditors) :
             UncachedRedditorRead(r) =>
                 IF redditors[r]._fullname = Absent THEN last'.ncalls = 1
                 ELSE redditors[r].name = Absent =>
                          last'.ncalls = IF redditors'[r].name = Absent THEN 1 ELSE 2
       /\ CachedReadsAreFree]_vars

\* A Redditor built by fullname has been read for an attribute it did not
\* hold, and the executor received two requests.
C1_Witness ==
    /\ last.op = "read" /\ last.cls = "Redditor" /\ last.ncalls = 2
    /\ redditors[last.ref]._fullname = UserFullname
    /\ redditors[last.ref]._fetched

\* C2: Fetched is terminal: no operation (construction, attribute read,
\* fetch, refresh, comparison) takes an entity that is Fetched to Unfetched;
\* a refresh of a Fetched Comment ends in Fetched.
C2_FetchedIsTerminal ==
    [][/\ \A c \in 1..Len(comments) :
             comments[c]._fetched => c <= Len(comments') /\ comments'[c]._fetched
       /\ \A r \in 1..Len(redditors) :
             redditors[r]._fetched => r <= Len(redditors') /\ redditors'[r]._fetched]_vars

\* A Comment that was Fetched already (the refresh fetched nothing first) has been
\* refreshed with success and is Fetched.
C2_Witness ==
    /\ last.op = "refresh" /\ last.exc = NoExc /\ last.ncalls = 1
    /\ comments[last.ref]._fetched
    /\ comments[last.ref].body = RefreshBody

\* C3: a read of an attribute that a Fetched entity does not hold fails with
\* AttributeError, issues no request and leaves the entity as it was; a
\* Comment built from _data is Fetched.
C3_AbsentOnFetchedIsAttributeError ==
    [][/\ \A c \in 1..Len(comments) :
             IsRead("Comment", c) /\ comments[c]._fetched /\ ~InDict(comments[c], last'.attr)
                 => last'.exc = "AttributeError" /\ last'.ncalls = 0 /\ comments' = comments
       /\ \A r \in 1..Len(redditors) :
             IsRead("Redditor", r) /\ redditors[r]._fetched
                                   /\ ~InDict(redditors[r], last'.attr)
                 => last'.exc = "AttributeError" /\ last'.ncalls = 0
                    /\ redditors' = redditors
       /\ last'.op = "new" /\ last'.cls = "Comment" /\ last'.ref # 0 /\ Given(last'.args[3])
             => comments'[last'.ref]._fetched]_vars

\* A Comment built from the payload {"id": ...} has been read for
\* "mark_as_read": AttributeError, no request.
C3_Witness ==
    /\ last.op = "read" /\ last.cls = "Comment" /\ last.attr = "mark_as_read"
    /\ last.exc = "AttributeError" /\ last.ncalls = 0
    /\ comments[last.ref]._fetched /\ comments[last.ref].body = Absent

\* C4 as the spec states it: no attribute read, fetch or refresh changes the
\* identifier of an entity (Comment id, Redditor name), whatever the server
\* returns.
C4_IdentityNeverChanges ==
    [][/\ \A c \in 1..Len(comments) : comments'[c].id = comments[c].id
       /\ \A r \in 1..Len(redditors) :
             redditors[r].name # Absent => redditors'[r].name = redditors[r].name]_vars

\* C7: a constructor call in which the number of arguments that are not
\* None differs from one raises TypeError with the "Exactly one of ... must
\* be provided." message of its class and creates no entity.
C7_WrongCountIsTypeError ==
    [][last'.op = "new" /\ CountGiven(last'.args[1], last'.args[2], last'.args[3]) # 1
          => /\ last'.exc = "TypeError"
             /\ last'.msg = IF last'.cls = "Comment" THEN CommentCtorMessage
                            ELSE RedditorCtorMessage
             /\ last'.ref = 0
             /\ comments' = comments /\ redditors' = redditors]_vars

\* Comment(id, url, _data) with all three arguments given has raised
\* TypeError.
C7_Witness ==
    /\ last.op = "new" /\ last.cls = "Comment"
    /\ CountGiven(last.args[1], last.args[2], last.args[3]) = 3
    /\ last.exc = "TypeError" /\ last.msg = CommentCtorMessage

\* The single argument of a Comment constructor call is malformed: an empty
\* id, an empty url or a url that id_from_url rejects.
Malformed(args) ==
    /\ CountGiven(args[1], args[2], args[3]) = 1
    /\ \/ args[1] = <<"">>
       \/ Given(args[2]) /\ (args[2][1] = EmptyUrl \/ IdFromUrl(args[2][1]).exc # NoExc)

\* C8: a Comment constructor call whose single argument is malformed raises
\* ValueError or InvalidURL (a ClientException), never TypeError, and
\* creates no entity.
C8_MalformedIdentityError ==
    [][last'.op = "new" /\ last'.cls = "Comment" /\ Malformed(last'.args)
          => /\ last'.exc \in {"ValueError", "InvalidURL"}
             /\ last'.ref = 0
             /\ comments' = comments]_vars

\* Comment(url="") has raised ValueError.
C8_Witness ==
    /\ last.op = "new" /\ last.cls = "Comment"
    /\ last.args = <<NoArg, <<EmptyUrl>>, NoArg>>
    /\ last.exc = "ValueError"

\* C9: two Comments are equal iff their ids are equal ignoring case, equal
\* Comments have equal hashes, and a Comment equals a string iff the string
\* equals its id ignoring case; no other attribute enters.
C9_EqualityOnCaseFoldedId ==
    /\ last.op = "eq" =>
          /\ last.val[1] = (Lower(comments[last.ref].id) = Lower(comments[last.other].id))
          /\ last.val[1] => last.val[2]
    /\ last.op = "eqstr" =>
          last.val[1] = (Lower(last.attr) = Lower(comments[last.ref].id))

\* Two Comments whose ids differ in case only, and whose bodies differ, have
\* compared equal with equal hashes.
C9_Witness ==
    /\ last.op = "eq" /\ last.val = <<TRUE, TRUE>>
    /\ comments[last.ref].id # comments[last.other].id
    /\ comments[last.ref].body # comments[last.other].body

\* The step is comments[c].parent().
IsParent(c) == last'.op = "parent" /\ last'.ref = c

\* C11: with parent_id cached, parent() issues no request and, when it
\* returns, returns the owning submission if parent_id is the submission's
\* fullname; otherwise the comment the submission's index holds under
\* parent_id if there is one; otherwise a new Unfetched Comment whose id is
\* parent_id without its type prefix.
C11_ParentPriorityOrder ==
    [][\A c \in 1..Len(comments) :
          IsParent(c) /\ InDict(comments[c], "parent_id") =>
              /\ last'.ncalls = 0
              /\ last'.exc = NoExc =>
                    LET pid == comments[c].parent_id
                        s == comments'[c]._submission
                        byId == subs'[s].byId
                    IN IF pid = SubmissionFullname(subs'[s])
                       THEN last'.val = <<"Submission", s>> /\ Len(comments') = Len(comments)
                       ELSE IF InIndex(byId, pid)
                       THEN last'.val = <<"Comment", byId[pid]>>
                            /\ Len(comments') = Len(comments)
                       ELSE /\ last'.val = <<"Comment", Len(comments) + 1>>
                            /\ Len(comments') = Len(comments) + 1
                            /\ Last(comments').id = AfterPrefix(pid)
                            /\ ~Last(comments')._fetched
                            /\ Last(comments').body = Absent]_vars

\* parent() has returned the comment that the index of the submission holds
\* under parent_id, a comment other than the one it was called on.
C11_Witness ==
    /\ last.op = "parent" /\ last.exc = NoExc /\ last.ncalls = 0
    /\ last.val[1] = "Comment" /\ last.val[2] # last.ref
    /\ LET d == comments[last.ref] IN
          /\ d.parent_id # SubmissionFullname(subs[d._submission])
          /\ subs[d._submission].byId[d.parent_id] = last.val[2]

\* cs[c] belongs to a submission whose index resolves its parent: it has a
\* submission and a cached parent_id that is the submission's fullname or a
\* key of the submission's index.
ParentIndexed(cs, ss, c) ==
    /\ cs[c]._submission # 0
    /\ InDict(cs[c], "parent_id")
    /\ \/ cs[c].parent_id = SubmissionFullname(ss[cs[c]._submission])
       \/ /\ cs[c].parent_id \in DOMAIN ss[cs[c]._submission].byId
          /\ ss[cs[c]._submission].byId[cs[c].parent_id] # 0

\* Every comment met when walking up from cs[c] through the index, for at
\* most fuel steps, is ParentIndexed and belongs to the same submission.
RECURSIVE ObtainedThroughSubmission(_, _, _, _)
ObtainedThroughSubmission(cs, ss, c, fuel) ==
    \/ fuel = 0
    \/ /\ ParentIndexed(cs, ss, c)
       /\ \/ cs[c].parent_id = SubmissionFullname(ss[cs[c]._submission])
          \/ LET p == ss[cs[c]._submission].byId[cs[c].parent_id] IN
                /\ cs[p]._submission = cs[c]._submission
                /\ ObtainedThroughSubmission(cs, ss, p, fuel - 1)

\* C12: parent() on a comment whose whole ancestry is registered in its
\* submission's index issues no request, raises nothing, creates no object
\* and returns the submission or the comment the index holds, whose ancestry
\* is registered in the same index again, so every step of the walk up to
\* the submission is of this kind.
C12_IndexedAncestryNeedsNoRequest ==
    [][\A c \in 1..Len(comments) :
          IsParent(c) /\ ObtainedThroughSubmission(comments, subs, c, MaxComments + 2) =>
              /\ last'.exc = NoExc /\ last'.ncalls = 0
              /\ comments' = comments /\ subs' = subs
              /\ \/ last'.val = <<"Submission", comments[c]._submission>>
                 \/ /\ last'.val[1] = "Comment"
                    /\ last'.val[2] \in 1..Len(comments)
                    /\ last'.val[2] = subs[comments[c]._submission].byId[comments[c].parent_id]
                    /\ ObtainedThroughSubmission(comments, subs, last'.val[2],
                                                 MaxComments + 2)]_vars

\* parent() on a reply registered in the index has returned the registered
\* top-level comment, whose own parent is the submission.
C12_Witness ==
    /\ last.op = "parent" /\ last.exc = NoExc /\ last.ncalls = 0
    /\ last.val[1] = "Comment" /\ last.val[2] # last.ref
    /\ ObtainedThroughSubmission(comments, subs, last.ref, MaxComments + 2)
    /\ LET d == comments[last.ref]
           sub == subs[d._submission]
       IN /\ sub.byId[Fullname(d)] = last.ref
          /\ comments[last.val[2]].parent_id = SubmissionFullname(sub)
          /\ comments[last.val[2]]._submission = d._submission

\* The step is comments[c].refresh().
IsRefresh(c) == last'.op = "refresh" /\ last'.ref = c

\* The objects of the tree a refresh step has returned: refresh appends
\* them to the heap.
TreeRefs == (Len(comments) + 1)..Len(comments')

TreeIds(tree) ==
    UNION {{tree[i].id} \cup {tree[i].replies[j] : j \in 1..Len(tree[i].replies)} :
             i \in 1..Len(tree)}

\* C14: a refresh whose tree request was answered fails with
\* ClientException(MISSING_COMMENT_MESSAGE) exactly when the returned list is
\* empty or no comment of the tree has the comment's id; then no object of
\* the tree is kept, no other comment changes, the comment has none of the
\* tree's attributes merged and every index is as before (a submission built
\* by this call has an empty index).
C14_MissingCommentLeavesNoTrace ==
    [][\A c \in 1..Len(comments) :
          IsRefresh(c) =>
              LET missing == last'.exc = "ClientException" /\ last'.msg = MissingCommentMessage
                  tresp == last'.args[1]
              IN /\ (comments'[c]._submission # 0 /\ tresp.exc = NoExc) =>
                       (missing <=> comments'[c].id \notin TreeIds(tresp.tree))
                 /\ missing =>
                       /\ tresp.exc = NoExc
                       /\ Len(comments') = Len(comments)
                       /\ \A i \in 1..Len(comments) : i # c => comments'[i] = comments[i]
                       /\ IF last'.ncalls = 1
                          THEN comments'[c] =
                                 [comments[c] EXCEPT !._submission = comments'[c]._submission]
                          ELSE comments'[c].body # RefreshBody /\ comments'[c]._replies = <<>>
                       /\ \A s \in 1..Len(subs') :
                             IF s <= Len(subs) THEN subs'[s] = subs[s]
                             ELSE \A k \in DOMAIN subs'[s].byId : subs'[s].byId[k] = 0]_vars

\* A refresh has failed on a tree that has comments, none with the
\* comment's id, and the index of the comment's submission is empty.
C14_Witness ==
    /\ last.op = "refresh" /\ last.exc = "ClientException"
    /\ last.msg = MissingCommentMessage
    /\ last.args[1].tree # <<>>
    /\ comments[last.ref].id \notin TreeIds(last.args[1].tree)
    /\ comments[last.ref]._submission # 0
    /\ \A k \in FullnameKeys : subs[comments[last.ref]._submission].byId[k] = 0

\* p is tag, an underscore and an id: the part of p before its first
\* underscore is tag (no kind tag and no id has an underscore).
StartsWithTag(p, tag) == \E i \in Ids \cup {"s1"} : p = tag \o "_" \o i

\* C20: is_root is TRUE exactly when the part of parent_id before its
\* first underscore is the submission kind tag, and FALSE when parent_id
\* carries the comment kind tag.
C20_IsRootIffSubmissionPrefix ==
    [][\A c \in 1..Len(comments) :
          (last'.op = "is_root" /\ last'.ref = c /\ last'.exc = NoExc) =>
              /\ InDict(comments'[c], "parent_id")
              /\ last'.val[1] <=> StartsWithTag(comments'[c].parent_id, KindSubmission)
              /\ StartsWithTag(comments'[c].parent_id, KindComment) => ~last'.val[1]]_vars

\* is_root has answered TRUE for a top-level comment.
C20_Witness ==
    /\ last.op = "is_root" /\ last.exc = NoExc /\ last.val = <<TRUE>>
    /\ comments[last.ref].parent_id = LinkId

\* is_root has answered FALSE for a reply to a comment.
C20_WitnessReply ==
    /\ last.op = "is_root" /\ last.exc = NoExc /\ last.val = <<FALSE>>
    /\ StartsWithTag(comments[last.ref].parent_id, KindComment)

\* r has no raw["json"]["errors"]: a list, or a mapping without that path.
NoErrorsPath(r) ==
    \/ r.t = "list"
    \/ r.t = "map" /\ (~Has(r, "json") \/ ~Has(Get(r, "json"), "errors"))

\* The errors array of an error envelope
ErrorsOf(r) == Get(Get(r, "json"), "errors").items

\* C15: for a response that is not an error envelope (an empty mapping, a
\* list, a mapping without the "json"/"errors" path) parse_error returns
\* None and check_error returns, and neither raises.
C15_NoEnvelopeNoError ==
    (objLast.op \in {"parse_error", "check_error"} /\ NoErrorsPath(raw)) =>
        objLast.exc = NoExc /\ objLast.val.t = "null"

\* check_error has returned on {"asdf": 1}.
C15_Witness ==
    /\ objLast.op = "check_error" /\ objLast.exc = NoExc
    /\ raw = JMap([asdf |-> JStr("1")])

\* C16: parse_error on {"json": {"errors": []}} raises ClientException: it
\* returns neither None nor a RedditAPIException.
C16_EmptyErrorsIsClientException ==
    (objLast.op = "parse_error" /\ ~NoErrorsPath(raw) /\ ErrorsOf(raw) = <<>>) =>
        objLast.exc = "ClientException" /\ objLast.val.t # "RedditAPIException"

\* parse_error has raised ClientException on the envelope with no errors.
C16_Witness ==
    /\ objLast.op = "parse_error" /\ objLast.exc = "ClientException"
    /\ raw = ErrorEnvelope(<<>>)

\* C17: for an envelope with n >= 1 errors parse_error returns, and
\* check_error raises, one RedditAPIException with exactly n items, the
\* i-th being the RedditErrorItem of the i-th reported tuple; and every
\* item of a RedditAPIException built from raw lists and RedditErrorItems
\* is a RedditErrorItem, in the order given.
C17_OneItemPerReportedError ==
    /\ (objLast.op \in {"parse_error", "check_error"} /\ ~NoErrorsPath(raw)
            /\ Len(ErrorsOf(raw)) >= 1) =>
           /\ objLast.exc = IF objLast.op = "parse_error" THEN NoExc ELSE "RedditAPIException"
           /\ objLast.val.t = "RedditAPIException"
           /\ Len(objLast.val.items) = Len(ErrorsOf(raw))
           /\ \A i \in 1..Len(ErrorsOf(raw)) :
                 LET e == ErrorsOf(raw)[i].items
                     item == objLast.val.items[i]
                 IN /\ item.t = "RedditErrorItem"
                    /\ item.error_type = e[1].v /\ item.message = e[2].v
                    /\ item.field = IF e[3].t = "null" THEN None ELSE e[3].v
    /\ objLast.op = "RedditAPIException" =>
           /\ Len(objLast.val.items) = Len(raw.items)
           /\ \A i \in 1..Len(raw.items) :
                 /\ objLast.val.items[i].t = "RedditErrorItem"
                 /\ raw.items[i].t = "RedditErrorItem" => objLast.val.items[i] = raw.items[i]
                 /\ raw.items[i].t = "list" =>
                       objLast.val.items[i].error_type = raw.items[i].items[1].v

\* check_error has raised the exception of an envelope with two different
\* errors, the two items in the reported order.
C17_Witness ==
    /\ objLast.op = "check_error" /\ objLast.exc = "RedditAPIException"
    /\ raw = ErrorEnvelope(<<UserRequired, NoSubject>>)
    /\ Len(objLast.val.items) = 2
    /\ objLast.val.items[1].error_type = "USER_REQUIRED"
    /\ objLast.val.items[2].error_type = "NO_SUBJECT"

\* C18: objectify(None) is None, objectify of a scalar is the scalar, and
\* objectify of a sequence is the sequence, of the same length and in the
\* same order, of its objectified elements.
C18_PrimitivesAndSequences ==
    objLast.op = "objectify" =>
        /\ raw.t = "null" => objLast.val.t = "null"
        /\ raw.t = "str" => objLast.val = raw
        /\ raw.t = "list" =>
              /\ objLast.val.t = "list"
              /\ Len(objLast.val.items) = Len(raw.items)
              /\ \A i \in 1..Len(raw.items) :
                    /\ objLast.val.items[i].t = Objectify(raw.items[i]).t
                    /\ objLast.val.items[i] = Objectify(raw.items[i])
                    /\ raw.items[i].t \in {"null", "str"} => objLast.val.items[i] = raw.items[i]

\* objectify has mapped a sequence of two different elements, None and a
\* tagged payload, to None and the entity, in that order.
C18_Witness ==
    /\ objLast.op = "objectify"
    /\ raw = JList(<<JNull, TaggedPayload("t1")>>)
    /\ objLast.val.items[1].t = "null" /\ objLast.val.items[2].t = "entity"

\* The kinds of raw value the dispatch of objectify tells apart
ShapeOf(r) ==
    CASE r.t \in {"null", "str", "list"} -> r.t
      [] r.t = "map" /\ Tagged(r) /\ Get(r, "kind").v \in {"t1", "t2", "t3"} -> "known tag"
      [] r.t = "map" /\ Tagged(r) /\ Get(r, "kind").v \notin {"t1", "t2", "t3"} -> "unknown tag"
      [] r.t = "map" /\ ~Tagged(r) /\ ~Has(r, "kind") /\ Has(r, "children")
            /\ Has(r, "after") -> "listing"
      [] OTHER -> "other mapping"

\* C19: objectify gives every raw value exactly one outcome and never
\* fails: None, the scalar, a sequence, for a known tag the entity of the
\* type mapped to the tag with the payload's id, for an untagged
\* listing-shaped mapping a Listing, and for an unknown tag and any other
\* mapping a generic attribute bag.
C19_DispatchTotalSingleValued ==
    objLast.op = "objectify" =>
        /\ objLast.exc = NoExc
        /\ objLast.val.t # "unhandled"
        /\ objLast.val.t =
              CASE ShapeOf(raw) = "null" -> "null"
                [] ShapeOf(raw) = "str" -> "str"
                [] ShapeOf(raw) = "list" -> "list"
                [] ShapeOf(raw) = "known tag" -> "entity"
                [] ShapeOf(raw) = "listing" -> "listing"
                [] OTHER -> "bag"
        /\ ShapeOf(raw) = "known tag" =>
              /\ objLast.val.cls = CASE Get(raw, "kind").v = "t1" -> "Comment"
                                      [] Get(raw, "kind").v = "t2" -> "Redditor"
                                      [] OTHER -> "Submission"
              /\ objLast.val.attrs.m["id"] = Get(Get(raw, "data"), "id")
        /\ raw.t = "list" => \A i \in 1..Len(raw.items) : objLast.val.items[i].t # "unhandled"

\* objectify has turned a payload with an unknown tag into an attribute bag.
C19_Witness ==
    /\ objLast.op = "objectify" /\ objLast.exc = NoExc
    /\ raw = TaggedPayload("zz")
    /\ objLast.val.t = "bag"

\* C21: Comment.author = value stores None exactly when value is the
\* literal "[deleted]"; for any other value the outcome is that of
\* Redditor(reddit, value): for a non-empty string a new shallow Redditor
\* of that name is stored, and when the constructor raises nothing is
\* stored.
C21_DeletedAuthorIsNone ==
    [][\A c \in 1..Len(comments) :
          (last'.op = "set_author" /\ last'.ref = c) =>
              LET value == last'.args[1] IN
              /\ (last'.exc = NoExc /\ comments'[c].author = <<None>>)
                    <=> value = <<"[deleted]">>
              /\ value = <<"[deleted]">> => redditors' = redditors
              /\ (value # <<"[deleted]">> /\ value # NoArg /\ value # <<"">>) =>
                    /\ last'.exc = NoExc
                    /\ comments'[c].author = <<"Redditor", Len(redditors')>>
                    /\ Len(redditors') = Len(redditors) + 1
                    /\ Last(redditors').name = value[1]
                    /\ ~Last(redditors')._fetched
              /\ last'.exc # NoExc =>
                    /\ comments' = comments /\ redditors' = redditors
                    /\ value \in {NoArg, <<"">>}]_vars

\* "[deleted]" has been assigned to the author of a comment that had a
\* Redditor as its author: None is stored.
C21_Witness ==
    /\ last.op = "set_author" /\ last.exc = NoExc
    /\ last.args = <<<<"[deleted]">>>>
    /\ comments[last.ref].author = <<None>>
    /\ Len(redditors) = 1

\* C22: the first read of replies turns the list into a CommentForest of
\* the comment's submission; a read of replies on a comment that holds a
\* CommentForest builds nothing, changes nothing and issues no request; and
\* only a refresh or a fetch of the comment puts a list in the place of its
\* CommentForest.
C22_RepliesBuiltOnce ==
    [][\A c \in 1..Len(comments) :
          /\ (last'.op = "replies" /\ last'.ref = c) =>
                IF comments[c].forest
                THEN /\ last'.exc = NoExc /\ last'.ncalls = 0
                     /\ last'.val[1] = FALSE
                     /\ comments' = comments /\ subs' = subs
                ELSE last'.exc = NoExc =>
                        /\ last'.val[1] = TRUE
                        /\ comments'[c].forest
                        /\ comments'[c]._submission # 0
                        /\ last'.val[2] = comments'[c]._submission
          /\ (comments[c].forest /\ ~comments'[c].forest) =>
                /\ last'.ref = c
                /\ last'.op = "refresh" \/ last'.ncalls > 0]_vars

\* replies has been read on a shallow comment, which fetched it and built
\* the CommentForest, and read again: the second read built nothing.
C22_Witness ==
    /\ last.op = "replies" /\ last.exc = NoExc
    /\ last.val[1] = FALSE
    /\ comments[last.ref].forest /\ comments[last.ref]._fetched
    /\ last.ref = 1
    /\ last.val[2] = comments[last.ref]._submission

\* C23: two RedditErrorItems are equal exactly when their error_type,
\* message and field are all equal; equal items have equal hashes; and a
\* RedditErrorItem is not equal to a value that is not a RedditErrorItem.
C23_ItemEqualityByFields ==
    objLast.op = "eq" =>
        LET a == raw.items[1]
            b == raw.items[2]
        IN  IF b.t = "RedditErrorItem"
            THEN /\ objLast.val.eq <=> (/\ a.error_type = b.error_type
                                        /\ a.message = b.message
                                        /\ a.field = b.field)
                 /\ objLast.val.eq => objLast.val.hashes[1] = objLast.val.hashes[2]
            ELSE ~objLast.val.eq

\* Two items built from the same three values have been compared (equal,
\* with equal hashes).
C23_Witness ==
    /\ objLast.op = "eq" /\ objLast.val.eq
    /\ raw.items[1] = BadSomething /\ raw.items[2] = BadSomething
    /\ objLast.val.hashes[1] = objLast.val.hashes[2]

\* Two items that differ in the field alone, and an item and 0, have been
\* compared (not equal).
C23_WitnessUnequal ==
    /\ objLast.op = "eq" /\ ~objLast.val.eq
    /\ raw.items[1] = BadSomething
    /\ raw.items[2] \in {RedditErrorItem("BAD_SOMETHING", "invalid something", None), JStr("0")}

\* An Unfetched Comment that holds a submission: what parent() constructs.
ShallowWithSubmission(d) == ~d._fetched /\ d._submission # 0

\* C24: the shallow Comment that parent() constructs holds the child's
\* submission object when parent() returns, and after the attribute read
\* that fetches it the parent's submission is still that object.
C24_ParentKeepsSubmission ==
    [][/\ \A c \in 1..Len(comments) :
            (IsParent(c) /\ last'.exc = NoExc /\ Len(comments') = Len(comments) + 1) =>
                /\ Last(comments')._submission # 0
                /\ Last(comments')._submission = comments'[c]._submission
       /\ \A p \in 1..Len(comments) :
            (/\ last'.op = "read" /\ last'.cls = "Comment" /\ last'.ref = p
             /\ ShallowWithSubmission(comments[p]) /\ comments'[p]._fetched) =>
                LET g == SubmissionGet(comments', subs', p, NoInfo)
                IN  /\ g.exc = NoExc
                    /\ g.comments[p]._submission = comments[p]._submission]_vars

\* The first half of C24 alone: at the return of parent() the constructed
\* Comment holds the child's submission object.
C24_ParentScopedAtReturn ==
    [][\A c \in 1..Len(comments) :
          (IsParent(c) /\ last'.exc = NoExc /\ Len(comments') = Len(comments) + 1) =>
              /\ Last(comments')._submission # 0
              /\ Last(comments')._submission = comments'[c]._submission]_vars

\* C25: every entry key -> comment of a submission's index holds a comment
\* whose fullname is the key and whose submission is that submission.
C25_IndexConsistent ==
    \A s \in 1..Len(subs) :
        \A k \in DOMAIN subs[s].byId :
            InIndex(subs[s].byId, k) =>
                /\ Fullname(comments[subs[s].byId[k]]) = k
                /\ comments[subs[s].byId[k]]._submission = s

\* The comments of a tree laid out from base + 1 on, in the order a
\* last-in-first-out walk reaches them: the last top-level comment, its
\* replies from the last to the first, then the top-level comment before it.
RECURSIVE LifoOrder(_, _)
LifoOrder(tree, base) ==
    IF tree = <<>> THEN <<>>
    ELSE LET n == Len(tree)
             top == TopRefs(tree, base)[n]
             k == Len(tree[n].replies)
         IN <<top>> \o [j \in 1..k |-> top + k + 1 - j]
            \o LifoOrder(SubSeq(tree, 1, n - 1), base)

C26_WitnessNested ==
    /\ last.op = "refresh" /\ last.exc = NoExc
    /\ Len(last.args[1].tree) = 1
    /\ last.args[1].tree[1].replies = <<last.args[1].tree[1].id>>
    /\ last.other = Len(comments) - 1

\* C27: a refresh of a comment whose submission is set leaves the comment
\* with that same submission, whether it succeeds or fails.
C27_RefreshKeepsSubmission ==
    [][\A c \in 1..Len(comments) :
          (IsRefresh(c) /\ comments[c]._submission # 0) =>
              /\ comments'[c]._submission = comments[c]._submission
              /\ Len(subs') = Len(subs)]_vars

\* A refresh has merged the found node into a comment that a refresh or a
\* parent() had given its submission before.
C27_Witness ==
    /\ last.op = "refresh" /\ last.exc = NoExc /\ last.ncalls = 1
    /\ last.ref > 1
    /\ last.other # last.ref
    /\ comments[last.ref]._submission = 1
    /\ comments[last.other]._submission = 1
    /\ Len(subs) = 1

\* C28: when the info request of an attribute read on an Unfetched Comment
\* returns no children, the read raises ClientException("No data returned
\* for comment <fullname>") after that one request, and the Comment is as
\* it was: Unfetched, with the attributes it had.
C28_EmptyInfoIsClientException ==
    [][\A c \in 1..Len(comments) :
          (/\ last'.op = "read" /\ last'.cls = "Comment" /\ last'.ref = c
           /\ last'.args # <<>>
           /\ last'.args[1].exc = NoExc /\ last'.args[1].children = <<>>) =>
              /\ last'.exc = "ClientException"
              /\ last'.msg = "No data returned for comment " \o KindComment \o "_"
                                \o comments[c].id
              /\ last'.ncalls = 1
              /\ ~comments[c]._fetched /\ ~comments'[c]._fetched
              /\ comments' = comments /\ subs' = subs]_vars

\* A read of body on the shallow Comment c1 got no children and raised.
C28_Witness ==
    /\ last.op = "read" /\ last.cls = "Comment" /\ last.attr = "body"
    /\ last.args = <<[exc |-> NoExc, children |-> <<>>]>>
    /\ last.exc = "ClientException"
    /\ last.msg = "No data returned for comment t1_c1"
    /\ ~comments[last.ref]._fetched /\ comments[last.ref].body = Absent

\* The object a step operated on is marked Fetched before / after the step.
WasFetched == IF last'.cls = "Comment" THEN comments[last'.ref]._fetched
              ELSE redditors[last'.ref]._fetched
IsFetched == IF last'.cls = "Comment" THEN comments'[last'.ref]._fetched
             ELSE redditors'[last'.ref]._fetched

\* A request of the step was answered with a transport error: a request of
\* a fetching read, the info request of a refresh, or its tree request
\* (issued when "self.submission" returned: the last of ncalls requests).
ReadHitTransport ==
    /\ last'.op = "read" /\ last'.ref # 0
    /\ \E i \in 1..Len(last'.args) : last'.args[i].exc = Transport
RefreshInfoHitTransport ==
    /\ last'.op = "refresh" /\ Len(last'.args) = 2
    /\ last'.args[2].exc = Transport
RefreshTreeHitTransport ==
    /\ last'.op = "refresh" /\ last'.args[1].exc = Transport
    /\ IF Len(last'.args) = 2
       THEN last'.args[2].exc = NoExc /\ last'.args[2].children # <<>>
            /\ last'.args[2].children[1].link_id # Absent
       ELSE comments[last'.ref]._submission # 0 \/ InDict(comments[last'.ref], "link_id")

\* C29 as stated: a transport error during a fetching read or a refresh
\* is raised as it is, after the failed request no request follows, and the
\* entity is not marked Fetched by the operation.
C29_TransportErrorLeavesUnfetched ==
    [][(ReadHitTransport \/ RefreshInfoHitTransport \/ RefreshTreeHitTransport) =>
          /\ last'.exc = Transport /\ last'.msg = ""
          /\ IsFetched = WasFetched]_vars

\* C29, amended: the transport error is raised as it is; the failed request
\* is the last request of the operation; a failed read or info request
\* leaves the entity Unfetched, and a failed tree request leaves the Comment
\* as the requests before it left it (Fetched when the info request of the
\* same refresh had fetched it), with nothing of the tree merged.
C29_TransportErrorUnwrappedAndLast ==
    [][/\ ReadHitTransport =>
            /\ last'.exc = Transport /\ last'.msg = ""
            /\ last'.ncalls = Len(last'.args)
            /\ \A i \in 1..Len(last'.args) :
                   last'.args[i].exc = Transport => i = last'.ncalls
            /\ ~WasFetched /\ ~IsFetched
       /\ RefreshInfoHitTransport =>
            /\ last'.exc = Transport /\ last'.msg = ""
            /\ last'.ncalls = 1
            /\ ~IsFetched
            /\ comments' = comments /\ subs' = subs
       /\ RefreshTreeHitTransport =>
            /\ last'.exc = Transport /\ last'.msg = ""
            /\ last'.ncalls = Len(last'.args)
            /\ IsFetched <=> (WasFetched \/ Len(last'.args) = 2)
            /\ Len(comments') = Len(comments)
            /\ \A s \in 1..Len(subs) : subs'[s] = subs[s]]_vars

\* The about request of a Redditor given by fullname failed after the name
\* lookup: two requests, TransportError, not Fetched.
C29_Witness ==
    /\ last.op = "read" /\ last.cls = "Redditor"
    /\ last.exc = Transport /\ last.ncalls = 2
    /\ last.args[1].exc = NoExc /\ last.args[2].exc = Transport
    /\ ~redditors[last.ref]._fetched

\* The tree request of the refresh of a shallow Comment failed after its
\* info request had fetched the Comment.
C29_WitnessRefresh ==
    /\ last.op = "refresh" /\ last.exc = Transport /\ last.ncalls = 2
    /\ last.args[1].exc = Transport
    /\ comments[last.ref]._fetched
    /\ Len(comments) = 1

\* C30: for the mod-note page the generator holds, "after" was None (the
\* generator is exhausted) when has_next_page is present and false,
\* whatever end_cursor holds; otherwise it was end_cursor (the cursor of the
\* next request), or None when the page has no end_cursor; a page without
\* has_next_page counts as one with a next page.
C30_ModNoteAfterTable ==
    (kind = "ModNoteListing" /\ gListing # <<>> /\ ListingLen(kind, gListing[1]) > 0) =>
        LET p == gListing[1] IN
        IF p.has_next_page = "false"
        THEN gExhausted
        ELSE /\ p.has_next_page \in {Absent, "true"}
             /\ gExhausted <=> p.end_cursor = Absent
             /\ p.end_cursor # Absent => gParam = p.end_cursor

\* The generator holds a mod-note page without has_next_page that has an
\* end_cursor: the cursor is taken, the walk goes on.
C30_Witness ==
    /\ kind = "ModNoteListing" /\ gListing # <<>>
    /\ ListingLen(kind, gListing[1]) > 0
    /\ gListing[1].has_next_page = Absent /\ gListing[1].end_cursor = Cursor
    /\ ~gExhausted /\ gParam = Cursor

\* The generator holds a mod-note page whose has_next_page is false and
\* that has an end_cursor: the walk is over.
C30_WitnessFalse ==
    /\ kind = "ModNoteListing" /\ gListing # <<>>
    /\ ListingLen(kind, gListing[1]) > 0 /\ requests = 1
    /\ gListing[1].has_next_page = "false" /\ gListing[1].end_cursor = Cursor
    /\ gExhausted /\ gParam = None

\* C31: the after of a ModmailConversationsListing is None exactly when its
\* conversations are empty; otherwise it is the id of the last conversation,
\* whatever cursor attributes the listing carries.
C31_ModmailAfterIsLastId ==
    (last.op = "after" /\ kind = "ModmailConversationsListing") =>
        LET convs == pages[1].conversations IN
        /\ last.val[1] = None <=> convs = <<>>
        /\ convs # <<>> => last.val[1] = convs[Len(convs)]
        /\ last.exc = NoExc /\ last.ncalls = 0

\* after has been read on a modmail listing of MaxKids conversations that
\* also carries an "after" attribute: the id of the last conversation.
C31_Witness ==
    /\ last.op = "after" /\ kind = "ModmailConversationsListing"
    /\ Len(pages[1].conversations) = MaxKids
    /\ pages[1].after = Cursor
    /\ last.val = <<pages[1].conversations[MaxKids]>>
    /\ last.val # <<Cursor>>

\* after has been read on a modmail listing without conversations that
\* carries an "after" attribute: None.
C31_WitnessEmpty ==
    /\ last.op = "after" /\ kind = "ModmailConversationsListing"
    /\ pages[1].conversations = <<>> /\ pages[1].after = Cursor
    /\ last.val = <<None>>

\* The pages that have been requested and whose children have all been
\* yielded.
FullyYielded ==
    {i \in 1..Len(pages) : i <= requests /\ IsPrefix(AllKidsUpTo(i), yielded)}

\* C32: the generator never prefetches.  The requests issued are at most
\* one more than the requested pages whose children have all been yielded;
\* a request is issued only in a step in which the consumer advances the
\* generator (it receives a child or the end of the walk) with no fetched
\* child left to yield, one request per such step; and a step in which the
\* consumer does not advance issues none.
C32_NoPrefetch ==
    /\ [](requests <= 1 + Cardinality(FullyYielded))
    /\ [][/\ requests' # requests =>
               /\ requests' = requests + 1
               /\ ~HasBuffered
               /\ Len(yielded) = Len(AllKidsUpTo(IF requests <= Len(pages)
                                                 THEN requests ELSE Len(pages)))
               /\ yielded' # yielded \/ gDone'
          /\ (yielded' = yielded /\ gDone' = gDone) => requests' = requests]_vars

\* The consumer is in the middle of the second page, the third page has
\* children and has not been requested.
C32_Witness ==
    /\ requests = 2 /\ Len(pages) = 3 /\ ~gDone
    /\ HasBuffered /\ gIndex = 1
    /\ FullyYielded = {1}
    /\ KidsOf(kind, pages[3]) # <<>>
    /\ ~gExhausted

====
